---- MODULE Spec2Model ----
(***************************************************************************)
(* Model of the parqsee data-access layer: the ParquetCache (two maps,     *)
(* each behind its own mutex), the query functions built on it and the     *)
(* execute_sql command.  Request handlers run as concurrent tasks; every   *)
(* lock acquisition, critical section and await point is one step.         *)
(***************************************************************************)
EXTENDS Integers, Sequences, FiniteSets, TLC

\* ------------------------------------------------------------------ bounds
NumTasks == 2
MaxCalls == 3
MaxOffset == 4
MaxLimit == 4

Tasks == 1..NumTasks
Paths == {"a", "b"}
NoTask == 0
NoCtx == 0

\* ------------------------------------------------- files on disk (environment)
\* what a file access finds at a path; other programs replace, damage or
\* delete files at any time, so every access draws its own observation
MissingFile == [kind |-> "missing", num_rows |-> 0, schema |-> <<>>]
CorruptFile == [kind |-> "corrupt", num_rows |-> 0, schema |-> <<>>]
FileV1 == [kind |-> "parquet", num_rows |-> 2, schema |-> <<"id">>]
FileV2 == [kind |-> "parquet", num_rows |-> 3, schema |-> <<"id", "name">>]
FileStates == {MissingFile, CorruptFile, FileV1, FileV2}

\* ParquetMetadata (models/mod.rs); NoMeta is the unset local `meta`
ParquetMetadata(num_rows, columns) ==
    [num_rows |-> num_rows, num_columns |-> Len(columns), columns |-> columns]
NoMeta == [num_rows |-> -1, num_columns |-> 0, columns |-> <<>>]

\* compute_metadata(path): File::open, SerializedFileReader::new, then the record
compute_metadata(f) ==
    IF f.kind = "missing" THEN [err |-> "io_err", meta |-> NoMeta]
    ELSE IF f.kind = "corrupt" THEN [err |-> "format_err", meta |-> NoMeta]
    ELSE [err |-> "", meta |-> ParquetMetadata(f.num_rows, f.schema)]

\* the operations a task can be asked to run
SessionOps == {"get_or_create_session", "read_data", "count_data",
               "execute_sql_with_cache"}
Ops == SessionOps \cup {"get_or_create_metadata", "evict", "execute_sql"}

VARIABLES
    sessions,   \* ParquetCache.sessions: path -> session handle (partial map)
    metadata,   \* ParquetCache.metadata: path -> ParquetMetadata (partial map)
    sessLock,   \* holder of the sessions mutex, NoTask when free
    metaLock,   \* holder of the metadata mutex, NoTask when free
    heap,       \* shared state behind each SessionContext (Arc): id -> tables
    pc, op, path,   \* per task: position, operation and its path argument
    ctx,        \* per task: local `ctx` (session handle id)
    meta,       \* per task: local `meta`
    result,     \* per task: "" while running, "ok" or the error
    calls,      \* number of calls started so far
    tg,         \* per task: observations of the running call (history)
    pg,         \* per path: observations of the cache entries (history)
    call,       \* the call of a function under study: its name and inputs
    out         \* what that call returned and left on disk, NoOut before it

vars == <<sessions, metadata, sessLock, metaLock, heap,
          pc, op, path, ctx, meta, result, calls, tg, pg, call, out>>

\* the variables of a function call under study; the cache operations leave
\* them alone
fv == <<call, out>>
NoCall == [fn |-> "none"]
NoOut == [result |-> ""]

\* ------------------------------------------------------------- map helpers
MapInsert(m, k, v) == [q \in (DOMAIN m) \cup {k} |-> IF q = k THEN v ELSE m[q]]
\* a removal that empties the whole map
MapRemoveAll(m, k) == [q \in {} |-> m[q]]
MapRemove(m, k) == [q \in (DOMAIN m) \ {k} |-> m[q]]
EmptyMap == [q \in {} |-> 0]

\* the shared state of a session lives as long as a handle to it does (Arc):
\* what is left of heap h when the map is m and the tasks' locals are c
Referenced(m, c) == {m[q] : q \in DOMAIN m} \cup {c[u] : u \in DOMAIN c}
DropUnreferenced(h, m, c) == [i \in (DOMAIN h) \cap Referenced(m, c) |-> h[i]]

\* the handle of a newly allocated session state: the first one not in use
FreshCtx(h) == CHOOSE i \in 1..(Cardinality(DOMAIN h) + 1) :
                  i \notin DOMAIN h /\ \A j \in 1..(i - 1) : j \in DOMAIN h

\* the table registrations of a session that has `p` registered as "t"
Registered(p) == {<<"t", p>>}


\* ------------------------------------------------------- history records
\* wrote: the call changed a cache map; built: it constructed a session;
\* didRead: it invoked compute_metadata;
\* expect: what the previous returned get_or_create_metadata(p) gave;
\* ovw: another call's insert replaced p's metadata entry since then;
\* clean: no evict(p) ran since this call started;
\* afterEvict: first get_or_create_metadata(p) after an evict(p) returned;
\* evicted: an evict removed p's session while this call held its handle;
\* hitStale: the lookup hit an entry marked stale;
\* old: the running evicts that removed p after this call built its value;
\* stale: such an evict has returned;
\* preMeta: the metadata entry p had when this evict started is still there;
\* remS: this evict removed a session entry
TaskHist0 == [wrote |-> FALSE, built |-> FALSE, didRead |-> FALSE,
              expect |-> NoMeta, ovw |-> FALSE, clean |-> FALSE,
              afterEvict |-> FALSE, evicted |-> FALSE,
              hitStale |-> FALSE, old |-> {}, stale |-> FALSE,
              preMeta |-> FALSE, remS |-> FALSE]
\* lastIns: the session of the latest insert for p; last: the latest returned
\* metadata for p; ovw: an insert replaced p's metadata entry since;
\* needFresh: an evict(p) returned and no get_or_create_metadata(p) started since;
\* oldS/oldM: the running evicts that removed p after the value of p's
\* session / metadata entry was built; staleS/staleM: such an evict returned
PathHist0 == [lastIns |-> 0, last |-> NoMeta, ovw |-> FALSE, needFresh |-> FALSE,
              oldS |-> {}, staleS |-> FALSE, oldM |-> {}, staleM |-> FALSE]

\* an evict of path p is between its call and its return
EvictRunning(p) == \E u \in Tasks : op[u] = "evict" /\ path[u] = p

\* ------------------------------------------------------------------- Init
Init ==
    /\ sessions = EmptyMap
    /\ metadata = EmptyMap
    /\ sessLock = NoTask
    /\ metaLock = NoTask
    /\ heap = EmptyMap
    /\ pc = [t \in Tasks |-> "idle"]
    /\ op = [t \in Tasks |-> "idle"]
    /\ path = [t \in Tasks |-> ""]
    /\ ctx = [t \in Tasks |-> NoCtx]
    /\ meta = [t \in Tasks |-> NoMeta]
    /\ result = [t \in Tasks |-> ""]
    /\ calls = 0
    /\ tg = [t \in Tasks |-> TaskHist0]
    /\ pg = [p \in Paths |-> PathHist0]
    /\ call = NoCall
    /\ out = NoOut

\* first position of each operation
FirstPc(o) ==
    CASE o \in SessionOps -> "s_lock1"
      [] o = "get_or_create_metadata" -> "m_lock1"
      [] o = "evict" -> "e_lock1"
      [] o = "execute_sql" -> "x_register"

\* a request handler is invoked with its arguments
Start(t, o, p) ==
    /\ pc[t] = "idle"
    /\ calls < MaxCalls
    /\ calls' = calls + 1
    /\ pc' = [pc EXCEPT ![t] = FirstPc(o)]
    /\ op' = [op EXCEPT ![t] = o]
    /\ path' = [path EXCEPT ![t] = p]
    /\ tg' = [u \in Tasks |->
               IF u = t
               THEN [TaskHist0 EXCEPT
                       !.expect = IF o = "get_or_create_metadata" /\ ~EvictRunning(p)
                                  THEN pg[p].last ELSE NoMeta,
                       !.ovw = (o = "get_or_create_metadata" /\ pg[p].ovw),
                       !.clean = ~EvictRunning(p) /\ o # "evict",
                       !.afterEvict = (o = "get_or_create_metadata" /\ pg[p].needFresh),
                       !.preMeta = (o = "evict" /\ p \in DOMAIN metadata)]
               ELSE IF o = "evict" /\ path[u] = p
                    THEN [tg[u] EXCEPT !.expect = NoMeta, !.clean = FALSE]
                    ELSE tg[u]]
    /\ pg' = [pg EXCEPT ![p] =
               [@ EXCEPT !.needFresh = IF o = "get_or_create_metadata" THEN FALSE ELSE @,
                         !.last = IF o = "evict" THEN NoMeta ELSE @]]
    /\ UNCHANGED <<sessions, metadata, sessLock, metaLock, heap, ctx, meta, result>>
    /\ UNCHANGED fv

\* where a caller of get_or_create_session continues with the handle
AfterSession(t) == IF op[t] = "get_or_create_session" THEN "done" ELSE "q_sql"
AfterSessionResult(t) == IF op[t] = "get_or_create_session" THEN "ok" ELSE ""
\* ------------------------------------------ ParquetCache::get_or_create_session
\* self.sessions.lock() of the lookup block
SessLockLookup(t) ==
    /\ pc[t] = "s_lock1"
    /\ sessLock = NoTask
    /\ sessLock' = t
    /\ pc' = [pc EXCEPT ![t] = "s_lookup"]
    /\ UNCHANGED <<sessions, metadata, metaLock, heap, op, path, ctx, meta, result, calls, tg, pg>>
    /\ UNCHANGED fv

\* a lookup that keeps the guard alive over the construction on a miss
SessLookupHoldingLock(t) ==
    /\ pc[t] = "s_lookup"
    /\ sessLock = t
    /\ IF path[t] \in DOMAIN sessions
       THEN /\ ctx' = [ctx EXCEPT ![t] = sessions[path[t]]]
            /\ pc' = [pc EXCEPT ![t] = AfterSession(t)]
            /\ result' = [result EXCEPT ![t] = AfterSessionResult(t)]
            /\ sessLock' = NoTask
       ELSE /\ pc' = [pc EXCEPT ![t] = "s_register"]
            /\ UNCHANGED <<ctx, result, sessLock>>
    /\ UNCHANGED <<sessions, metadata, metaLock, heap, op, path, meta, calls, tg, pg>>
    /\ UNCHANGED fv

\* sessions.get(path): a hit returns the clone, a miss falls through; the
\* guard is dropped at the end of the block either way
SessLookup(t) ==
    /\ pc[t] = "s_lookup"
    /\ sessLock = t
    /\ sessLock' = NoTask
    /\ IF path[t] \in DOMAIN sessions
       THEN /\ ctx' = [ctx EXCEPT ![t] = sessions[path[t]]]
            /\ pc' = [pc EXCEPT ![t] = AfterSession(t)]
            /\ result' = [result EXCEPT ![t] = AfterSessionResult(t)]
       ELSE /\ pc' = [pc EXCEPT ![t] = "s_register"]
            /\ UNCHANGED <<ctx, result>>
    /\ UNCHANGED <<sessions, metadata, metaLock, heap, op, path, meta, calls, tg, pg>>
    /\ UNCHANGED fv

\* a registration whose error is dropped instead of propagated
RegisterParquetIgnoreErr(t, f) ==
    /\ pc[t] = "s_register"
    /\ heap' = MapInsert(heap, FreshCtx(heap),
                         IF f.kind = "parquet" THEN Registered(path[t]) ELSE {})
    /\ ctx' = [ctx EXCEPT ![t] = FreshCtx(heap)]
    /\ pc' = [pc EXCEPT ![t] = "s_lock2"]
    /\ tg' = [tg EXCEPT ![t].built = TRUE]
    /\ UNCHANGED <<sessions, metadata, sessLock, metaLock, op, path, meta, result, calls, pg>>
    /\ UNCHANGED fv

\* let ctx = SessionContext::new();
\* ctx.register_parquet("t", path, options).await.map_err(..)?
\* the new context is local to the call until it is stored; on an error the
\* function returns and the context is dropped
RegisterParquet(t, f) ==
    /\ pc[t] = "s_register"
    /\ IF f.kind = "parquet"
       THEN /\ heap' = MapInsert(heap, FreshCtx(heap), Registered(path[t]))
            /\ ctx' = [ctx EXCEPT ![t] = FreshCtx(heap)]
            /\ pc' = [pc EXCEPT ![t] = "s_lock2"]
            /\ UNCHANGED result
       ELSE /\ pc' = [pc EXCEPT ![t] = "done"]
            /\ result' = [result EXCEPT ![t] = "register_err"]
            /\ UNCHANGED <<heap, ctx>>
    /\ tg' = [tg EXCEPT ![t].built = TRUE]
    /\ UNCHANGED <<sessions, metadata, sessLock, metaLock, op, path, meta, calls, pg>>
    /\ UNCHANGED fv

\* self.sessions.lock() of the store block
SessLockInsert(t) ==
    /\ pc[t] = "s_lock2"
    /\ sessLock = NoTask
    /\ sessLock' = t
    /\ pc' = [pc EXCEPT ![t] = "s_insert"]
    /\ UNCHANGED <<sessions, metadata, metaLock, heap, op, path, ctx, meta, result, calls, tg, pg>>
    /\ UNCHANGED fv

\* an insert that keeps an entry already present (first insert wins)
SessInsertIfAbsent(t) ==
    /\ pc[t] = "s_insert"
    /\ sessLock = t
    /\ sessions' = IF path[t] \in DOMAIN sessions THEN sessions
                   ELSE MapInsert(sessions, path[t], ctx[t])
    /\ sessLock' = NoTask
    /\ pc' = [pc EXCEPT ![t] = AfterSession(t)]
    /\ result' = [result EXCEPT ![t] = AfterSessionResult(t)]
    /\ tg' = [tg EXCEPT ![t].wrote = TRUE]
    /\ pg' = [pg EXCEPT ![path[t]].lastIns = ctx[t],
                         ![path[t]].oldS = tg[t].old,
                         ![path[t]].staleS = tg[t].stale]
    /\ UNCHANGED <<metadata, metaLock, heap, op, path, ctx, meta, calls>>
    /\ UNCHANGED fv

\* sessions.insert(path.to_string(), ctx.clone()); Ok(ctx)
SessInsert(t) ==
    /\ pc[t] = "s_insert"
    /\ sessLock = t
    /\ sessions' = MapInsert(sessions, path[t], ctx[t])
    /\ heap' = DropUnreferenced(heap, sessions', ctx)
    /\ sessLock' = NoTask
    /\ pc' = [pc EXCEPT ![t] = AfterSession(t)]
    /\ result' = [result EXCEPT ![t] = AfterSessionResult(t)]
    /\ tg' = [tg EXCEPT ![t].wrote = TRUE]
    /\ pg' = [pg EXCEPT ![path[t]].lastIns = ctx[t],
                         ![path[t]].oldS = tg[t].old,
                         ![path[t]].staleS = tg[t].stale]
    /\ UNCHANGED <<metadata, metaLock, op, path, ctx, meta, calls>>
    /\ UNCHANGED fv
\* ----------------------------------------- ParquetCache::get_or_create_metadata
\* self.metadata.lock() of the lookup block
MetaLockLookup(t) ==
    /\ pc[t] = "m_lock1"
    /\ metaLock = NoTask
    /\ metaLock' = t
    /\ pc' = [pc EXCEPT ![t] = "m_lookup"]
    /\ UNCHANGED <<sessions, metadata, sessLock, heap, op, path, ctx, meta, result, calls, tg, pg>>
    /\ UNCHANGED fv

\* a lookup that never consults the map
MetaLookupAlwaysMiss(t) ==
    /\ pc[t] = "m_lookup"
    /\ metaLock = t
    /\ metaLock' = NoTask
    /\ pc' = [pc EXCEPT ![t] = "m_compute"]
    /\ UNCHANGED <<sessions, metadata, sessLock, heap, op, path, ctx, meta, result, calls, tg, pg>>
    /\ UNCHANGED fv

\* metadata_cache.get(path): a hit returns the clone, a miss falls through
MetaLookup(t) ==
    /\ pc[t] = "m_lookup"
    /\ metaLock = t
    /\ metaLock' = NoTask
    /\ IF path[t] \in DOMAIN metadata
       THEN /\ meta' = [meta EXCEPT ![t] = metadata[path[t]]]
            /\ pc' = [pc EXCEPT ![t] = "done"]
            /\ result' = [result EXCEPT ![t] = "ok"]
            /\ tg' = [tg EXCEPT ![t].hitStale = pg[path[t]].staleM]
       ELSE /\ pc' = [pc EXCEPT ![t] = "m_compute"]
            /\ UNCHANGED <<meta, result, tg>>
    /\ UNCHANGED <<sessions, metadata, sessLock, heap, op, path, ctx, calls, pg>>
    /\ UNCHANGED fv

\* a computation that reserves the map slot before it reads the file
ComputeMetadataReserveEntry(t, f) ==
    /\ pc[t] = "m_compute"
    /\ metadata' = MapInsert(metadata, path[t], NoMeta)
    /\ pg' = [pg EXCEPT ![path[t]].ovw = TRUE]
    /\ LET r == compute_metadata(f) IN
       IF r.err = ""
       THEN /\ meta' = [meta EXCEPT ![t] = r.meta]
            /\ pc' = [pc EXCEPT ![t] = "m_lock2"]
            /\ UNCHANGED result
       ELSE /\ pc' = [pc EXCEPT ![t] = "done"]
            /\ result' = [result EXCEPT ![t] = r.err]
            /\ UNCHANGED meta
    /\ tg' = [tg EXCEPT ![t].didRead = TRUE, ![t].wrote = TRUE]
    /\ UNCHANGED <<sessions, sessLock, metaLock, heap, op, path, ctx, calls>>
    /\ UNCHANGED fv

\* let meta = compute_metadata(path)?
ComputeMetadata(t, f) ==
    /\ pc[t] = "m_compute"
    /\ LET r == compute_metadata(f) IN
       IF r.err = ""
       THEN /\ meta' = [meta EXCEPT ![t] = r.meta]
            /\ pc' = [pc EXCEPT ![t] = "m_lock2"]
            /\ UNCHANGED result
       ELSE /\ pc' = [pc EXCEPT ![t] = "done"]
            /\ result' = [result EXCEPT ![t] = r.err]
            /\ UNCHANGED meta
    /\ tg' = [tg EXCEPT ![t].didRead = TRUE]
    /\ UNCHANGED <<sessions, metadata, sessLock, metaLock, heap, op, path, ctx, calls, pg>>
    /\ UNCHANGED fv

\* a call whose observations a change of p's metadata entry concerns: a
\* get_or_create_metadata(p) before its lookup or after it got its value, or
\* an evict(p)
Observes(u, p) ==
    /\ path[u] = p
    /\ \/ op[u] = "get_or_create_metadata" /\ pc[u] \in {"m_lock1", "m_lookup", "done"}
       \/ op[u] = "evict"

\* self.metadata.lock() of the store block
MetaLockInsert(t) ==
    /\ pc[t] = "m_lock2"
    /\ metaLock = NoTask
    /\ metaLock' = t
    /\ pc' = [pc EXCEPT ![t] = "m_insert"]
    /\ UNCHANGED <<sessions, metadata, sessLock, heap, op, path, ctx, meta, result, calls, tg, pg>>
    /\ UNCHANGED fv

\* metadata_cache.insert(path.to_string(), meta.clone()); Ok(meta)
MetaInsert(t) ==
    /\ pc[t] = "m_insert"
    /\ metaLock = t
    /\ metadata' = MapInsert(metadata, path[t], meta[t])
    /\ metaLock' = NoTask
    /\ pc' = [pc EXCEPT ![t] = "done"]
    /\ result' = [result EXCEPT ![t] = "ok"]
    /\ tg' = [u \in Tasks |->
               IF u = t THEN [tg[u] EXCEPT !.wrote = TRUE, !.ovw = FALSE]
               ELSE IF Observes(u, path[t])
               THEN [tg[u] EXCEPT !.ovw = TRUE, !.preMeta = FALSE]
               ELSE tg[u]]
    /\ pg' = [pg EXCEPT ![path[t]].ovw = TRUE,
                         ![path[t]].oldM = tg[t].old,
                         ![path[t]].staleM = tg[t].stale]
    /\ UNCHANGED <<sessions, sessLock, heap, op, path, ctx, meta, calls>>
    /\ UNCHANGED fv

\* ------------------------------------------------------- ParquetCache::evict
\* a task that got its session handle from get_or_create_session(p) and is
\* using it
HoldsHandle(u, p) ==
    /\ op[u] \in SessionOps
    /\ path[u] = p
    /\ pc[u] \in {"q_sql", "q_collect"}

\* if let Ok(mut sessions) = self.sessions.lock()
EvictLockSessions(t) ==
    /\ pc[t] = "e_lock1"
    /\ sessLock = NoTask
    /\ sessLock' = t
    /\ pc' = [pc EXCEPT ![t] = "e_remove_s"]
    /\ UNCHANGED <<sessions, metadata, metaLock, heap, op, path, ctx, meta, result, calls, tg, pg>>
    /\ UNCHANGED fv

\* a call for p that has built its value and not yet inserted it
BuiltSession(u, p) ==
    op[u] \in SessionOps /\ path[u] = p /\ pc[u] \in {"s_lock2", "s_insert"}
BuiltMeta(u, p) ==
    op[u] = "get_or_create_metadata" /\ path[u] = p /\ pc[u] \in {"m_lock2", "m_insert"}

\* what the removal of p's session records about the calls in flight
EvictSessionHist(t) ==
    [u \in Tasks |->
       IF u = t
       THEN [tg[u] EXCEPT !.remS = (path[t] \in DOMAIN sessions)]
       ELSE IF HoldsHandle(u, path[t]) THEN [tg[u] EXCEPT !.evicted = TRUE]
       ELSE IF BuiltSession(u, path[t]) THEN [tg[u] EXCEPT !.old = @ \cup {t}]
       ELSE tg[u]]

\* a removal that also deregisters the table of the removed session
EvictRemoveSessionInvalidate(t) ==
    /\ pc[t] = "e_remove_s"
    /\ sessLock = t
    /\ sessions' = MapRemove(sessions, path[t])
    /\ heap' = DropUnreferenced(
                  IF path[t] \in DOMAIN sessions
                  THEN [heap EXCEPT ![sessions[path[t]]] = {}]
                  ELSE heap, sessions', ctx)
    /\ sessLock' = NoTask
    /\ pc' = [pc EXCEPT ![t] = "e_lock2"]
    /\ tg' = EvictSessionHist(t)
    /\ pg' = [pg EXCEPT ![path[t]].lastIns = 0,
                         ![path[t]].oldS = {},
                         ![path[t]].staleS = FALSE]
    /\ UNCHANGED <<metadata, metaLock, op, path, ctx, meta, result, calls>>
    /\ UNCHANGED fv

\* a removal that returns without dropping the guard of the session map
EvictRemoveSessionKeepGuard(t) ==
    /\ pc[t] = "e_remove_s"
    /\ sessLock = t
    /\ sessions' = MapRemove(sessions, path[t])
    /\ heap' = DropUnreferenced(heap, sessions', ctx)
    /\ pc' = [pc EXCEPT ![t] = "e_lock2"]
    /\ tg' = EvictSessionHist(t)
    /\ pg' = [pg EXCEPT ![path[t]].lastIns = 0,
                         ![path[t]].oldS = {},
                         ![path[t]].staleS = FALSE]
    /\ UNCHANGED <<metadata, sessLock, metaLock, op, path, ctx, meta, result, calls>>
    /\ UNCHANGED fv

\* sessions.remove(path)
EvictRemoveSession(t) ==
    /\ pc[t] = "e_remove_s"
    /\ sessLock = t
    /\ sessions' = MapRemove(sessions, path[t])
    /\ heap' = DropUnreferenced(heap, sessions', ctx)
    /\ sessLock' = NoTask
    /\ pc' = [pc EXCEPT ![t] = "e_lock2"]
    /\ tg' = EvictSessionHist(t)
    /\ pg' = [pg EXCEPT ![path[t]].lastIns = 0,
                         ![path[t]].oldS = {},
                         ![path[t]].staleS = FALSE]
    /\ UNCHANGED <<metadata, metaLock, op, path, ctx, meta, result, calls>>
    /\ UNCHANGED fv

\* if let Ok(mut metadata_cache) = self.metadata.lock()
EvictLockMetadata(t) ==
    /\ pc[t] = "e_lock2"
    /\ metaLock = NoTask
    /\ metaLock' = t
    /\ pc' = [pc EXCEPT ![t] = "e_remove_m"]
    /\ UNCHANGED <<sessions, metadata, sessLock, heap, op, path, ctx, meta, result, calls, tg, pg>>
    /\ UNCHANGED fv

\* an evict that leaves the metadata map alone
EvictKeepMetadata(t) ==
    /\ pc[t] = "e_remove_m"
    /\ metaLock = t
    /\ metaLock' = NoTask
    /\ pc' = [pc EXCEPT ![t] = "done"]
    /\ result' = [result EXCEPT ![t] = "ok"]
    /\ UNCHANGED <<sessions, metadata, sessLock, heap, op, path, ctx, meta, calls,
                   tg, pg>>
    /\ UNCHANGED fv

\* metadata_cache.remove(path); the function ends
EvictRemoveMetadata(t) ==
    /\ pc[t] = "e_remove_m"
    /\ metaLock = t
    /\ metadata' = MapRemove(metadata, path[t])
    /\ metaLock' = NoTask
    /\ pc' = [pc EXCEPT ![t] = "done"]
    /\ result' = [result EXCEPT ![t] = "ok"]
    /\ tg' = [u \in Tasks |->
               IF BuiltMeta(u, path[t]) THEN [tg[u] EXCEPT !.old = @ \cup {t}]
               ELSE IF u # t /\ op[u] = "evict" /\ path[u] = path[t]
               THEN [tg[u] EXCEPT !.preMeta = FALSE]
               ELSE tg[u]]
    /\ pg' = [pg EXCEPT ![path[t]].oldM = {},
                         ![path[t]].staleM = FALSE]
    /\ UNCHANGED <<sessions, sessLock, heap, op, path, ctx, meta, calls>>
    /\ UNCHANGED fv
\* --------------------------- read_data / count_data / execute_sql_with_cache
\* the path a session has registered under the table name "t"
TablePath(c) == (CHOOSE e \in heap[c] : e[1] = "t")[2]
HasTable(c) == \E e \in heap[c] : e[1] = "t"

\* ctx.sql(&query).await: planning against the handle's registered table;
\* valid: the filter or SQL text of the call is well-formed
QuerySql(t, valid) ==
    /\ pc[t] = "q_sql"
    /\ IF ~HasTable(ctx[t])
       THEN /\ pc' = [pc EXCEPT ![t] = "done"]
            /\ result' = [result EXCEPT ![t] = "no_table"]
       ELSE IF ~valid
       THEN /\ pc' = [pc EXCEPT ![t] = "done"]
            /\ result' = [result EXCEPT ![t] = "plan_err"]
       ELSE /\ pc' = [pc EXCEPT ![t] = "q_collect"]
            /\ UNCHANGED result
    /\ UNCHANGED <<sessions, metadata, sessLock, metaLock, heap, op, path, ctx, meta, calls, tg, pg>>
    /\ UNCHANGED fv

\* df.collect().await: execution reads the registered file
QueryCollect(t, f) ==
    /\ pc[t] = "q_collect"
    /\ pc' = [pc EXCEPT ![t] = "done"]
    /\ result' = [result EXCEPT ![t] =
                    IF f.kind = "parquet"
                    THEN "ok" ELSE "collect_err"]
    /\ UNCHANGED <<sessions, metadata, sessLock, metaLock, heap, op, path, ctx, meta, calls, tg, pg>>
    /\ UNCHANGED fv

\* ------------------------------------------- commands::query::execute_sql
\* let ctx = SessionContext::new();
\* ctx.register_parquet("t", &file_path, options).await.map_err(..)?
ExecSqlRegister(t, f) ==
    /\ pc[t] = "x_register"
    /\ IF f.kind = "parquet"
       THEN /\ heap' = MapInsert(heap, FreshCtx(heap), Registered(path[t]))
            /\ ctx' = [ctx EXCEPT ![t] = FreshCtx(heap)]
            /\ pc' = [pc EXCEPT ![t] = "q_sql"]
            /\ UNCHANGED result
       ELSE /\ pc' = [pc EXCEPT ![t] = "done"]
            /\ result' = [result EXCEPT ![t] = "register_err"]
            /\ UNCHANGED <<heap, ctx>>
    /\ tg' = [tg EXCEPT ![t].built = TRUE]
    /\ UNCHANGED <<sessions, metadata, sessLock, metaLock, op, path, meta, calls, pg>>
    /\ UNCHANGED fv

\* ------------------------------------------------------------ call returns
\* the handler returns its result to the caller; the task becomes idle
Return(t) ==
    /\ pc[t] = "done"
    /\ pg' = [pg EXCEPT ![path[t]] =
               IF op[t] = "evict"
               THEN [@ EXCEPT !.needFresh = TRUE,
                              !.staleS = @ \/ t \in pg[path[t]].oldS,
                              !.oldS = @ \ {t},
                              !.staleM = @ \/ t \in pg[path[t]].oldM,
                              !.oldM = @ \ {t}]
               ELSE IF op[t] = "get_or_create_metadata" /\ result[t] = "ok"
                       /\ tg[t].clean
               THEN [@ EXCEPT !.last = meta[t], !.ovw = tg[t].ovw]
               ELSE @]
    /\ pc' = [pc EXCEPT ![t] = "idle"]
    /\ op' = [op EXCEPT ![t] = "idle"]
    /\ path' = [path EXCEPT ![t] = ""]
    /\ ctx' = [ctx EXCEPT ![t] = NoCtx]
    /\ meta' = [meta EXCEPT ![t] = NoMeta]
    /\ result' = [result EXCEPT ![t] = ""]
    /\ tg' = [u \in Tasks |->
               IF u = t THEN TaskHist0
               ELSE IF t \in tg[u].old
               THEN [tg[u] EXCEPT !.stale = TRUE, !.old = @ \ {t}]
               ELSE tg[u]]
    /\ heap' = DropUnreferenced(heap, sessions, ctx')
    /\ UNCHANGED <<sessions, metadata, sessLock, metaLock, calls>>
    /\ UNCHANGED fv

\* --------------------------------------------------------- specification
\* the calls of one specification all work on the same path, where they
\* interfere with each other
Contended == {"a"}

CacheOps == {"get_or_create_session", "get_or_create_metadata", "evict"}
ReadOps == {"read_data", "count_data", "evict"}
SqlOps == {"execute_sql", "execute_sql_with_cache", "evict"}

\* the steps of get_or_create_session and evict, and the return of a call
CacheStep ==
    \/ \E t \in Tasks : SessLockLookup(t)
    \/ \E t \in Tasks : SessLookup(t)
    \/ \E t \in Tasks, f \in FileStates : RegisterParquet(t, f)
    \/ \E t \in Tasks : SessLockInsert(t)
    \/ \E t \in Tasks : SessInsert(t)
    \/ \E t \in Tasks : EvictLockSessions(t)
    \/ \E t \in Tasks : EvictRemoveSession(t)
    \/ \E t \in Tasks : EvictLockMetadata(t)
    \/ \E t \in Tasks : EvictRemoveMetadata(t)
    \/ \E t \in Tasks : Return(t)

MetaStep ==
    \/ \E t \in Tasks : MetaLockLookup(t)
    \/ \E t \in Tasks : MetaLookup(t)
    \/ \E t \in Tasks, f \in FileStates : ComputeMetadata(t, f)
    \/ \E t \in Tasks : MetaLockInsert(t)
    \/ \E t \in Tasks : MetaInsert(t)

QueryStep ==
    \/ \E t \in Tasks, valid \in BOOLEAN : QuerySql(t, valid)
    \/ \E t \in Tasks, f \in FileStates : QueryCollect(t, f)

ExecSqlStep ==
    \/ \E t \in Tasks, f \in FileStates : ExecSqlRegister(t, f)

\* concurrent callers of the cache methods themselves
NextCache ==
    \/ \E t \in Tasks, o \in CacheOps, p \in Contended : Start(t, o, p)
    \/ CacheStep
    \/ MetaStep

SpecCache == Init /\ [][NextCache]_vars

\* concurrent read_data / count_data handlers and evictions
NextRead ==
    \/ \E t \in Tasks, o \in ReadOps, p \in Contended : Start(t, o, p)
    \/ CacheStep
    \/ QueryStep

SpecRead == Init /\ [][NextRead]_vars

\* concurrent SQL handlers and evictions
NextSql ==
    \/ \E t \in Tasks, o \in SqlOps, p \in Contended : Start(t, o, p)
    \/ CacheStep
    \/ QueryStep
    \/ ExecSqlStep

SpecSql == Init /\ [][NextSql]_vars

\* concurrent readers, metadata builders and evictions
WorkOps == {"read_data", "get_or_create_metadata", "evict"}

NextWork ==
    \/ \E t \in Tasks, o \in WorkOps, p \in Contended : Start(t, o, p)
    \/ CacheStep
    \/ MetaStep
    \/ QueryStep

SpecWork == Init /\ [][NextWork]_vars

TypeOK ==
    /\ DOMAIN sessions \subseteq Paths
    /\ DOMAIN metadata \subseteq Paths
    /\ sessLock \in Tasks \cup {NoTask}
    /\ metaLock \in Tasks \cup {NoTask}
    /\ calls \in 0..MaxCalls

\* ------------------------------------------------------------ properties
\* the metadata records compute_metadata can produce
BuiltMetadata == {compute_metadata(f).meta : f \in {g \in FileStates : g.kind = "parquet"}}

SessionBuilt(c, p) == c \in DOMAIN heap /\ heap[c] = Registered(p)

FailedPopulate(t) ==
    pc[t] = "done" /\ result[t] \in {"register_err", "io_err", "format_err"}

\* C1 (as claimed): every path has both a cached session entry and a cached
\* metadata entry, or neither of them.
C1_PairedEntries ==
    \A p \in Paths : (p \in DOMAIN sessions) <=> (p \in DOMAIN metadata)

\* C1 (amended): each map on its own holds, for every path, no entry or a
\* fully built one: a session entry of p is a session with p registered as
\* table "t", a metadata entry is a complete record computed from a readable
\* file; the maps are filled independently of each other.
C1_EntriesFullyBuilt ==
    \A p \in Paths :
       /\ p \in DOMAIN sessions => SessionBuilt(sessions[p], p)
       /\ p \in DOMAIN metadata => metadata[p] \in BuiltMetadata

\* a path with a metadata entry and no session entry, after a failed
\* get_or_create_session for it
C1_Witness ==
    \E p \in Paths, t \in Tasks :
       /\ p \in DOMAIN metadata /\ p \notin DOMAIN sessions
       /\ path[t] = p /\ pc[t] = "done" /\ result[t] = "register_err"

\* C2: a get_or_create_session / get_or_create_metadata call that fails has
\* changed neither cache map, and a call that has changed a map did so with
\* a completely built value.
C2_FailedCallWroteNothing ==
    \A t \in Tasks :
       /\ FailedPopulate(t) => ~tg[t].wrote
       /\ tg[t].wrote /\ op[t] \in SessionOps => SessionBuilt(ctx[t], path[t])
       /\ tg[t].wrote /\ op[t] = "get_or_create_metadata" => meta[t] \in BuiltMetadata

\* a metadata call missed, read the file and failed on an unparseable
\* footer, while the entry another call stored meanwhile stays cached
C2_Witness ==
    \E t \in Tasks :
       /\ op[t] = "get_or_create_metadata" /\ pc[t] = "done"
       /\ result[t] = "format_err" /\ tg[t].didRead /\ ~tg[t].wrote
       /\ path[t] \in DOMAIN metadata

\* an evict between its two removals, and at its last step
EvictBetween(e) == op[e] = "evict" /\ pc[e] \in {"e_lock2", "e_remove_m"}

\* C3 (as claimed): no state can be observed in which evict(p) has removed
\* p's session entry while p's metadata entry from before the evict is still
\* present.
C3_EvictAtomic ==
    \A e \in Tasks :
       ~(EvictBetween(e) /\ tg[e].remS /\ tg[e].preMeta)

\* C3 (amended): evict(p) removes p's session entry and then p's metadata
\* entry, each in its own critical section: its first removal leaves p
\* without a session entry and the metadata map untouched, its second one
\* leaves p without a metadata entry and the session map untouched, and then
\* it returns; a removal of an absent entry changes nothing.
C3_EvictRemovesBoth ==
    [][\A e \in Tasks : op[e] = "evict" =>
          /\ pc[e] = "e_remove_s" /\ pc'[e] = "e_lock2" =>
                /\ path[e] \notin DOMAIN sessions'
                /\ (path[e] \notin DOMAIN sessions => sessions' = sessions)
                /\ metadata' = metadata
          /\ pc[e] = "e_remove_m" /\ pc'[e] = "done" =>
                /\ path[e] \notin DOMAIN metadata'
                /\ (path[e] \notin DOMAIN metadata => metadata' = metadata)
                /\ sessions' = sessions]_vars

\* an evict that found both entries, removed them and is about to return
C3_Witness ==
    \E e \in Tasks :
       /\ op[e] = "evict" /\ pc[e] = "done"
       /\ tg[e].remS /\ tg[e].preMeta
       /\ path[e] \notin DOMAIN sessions /\ path[e] \notin DOMAIN metadata

\* a get_or_create_metadata(p) call about to return, started after another
\* one returned successfully, with no evict(p) running since that one started
SecondCall(t) ==
    op[t] = "get_or_create_metadata" /\ pc[t] = "done" /\ tg[t].expect # NoMeta

\* C4 (as claimed): the second of two successive successful
\* get_or_create_metadata(p) calls with no evict(p) in between returns the
\* metadata the first returned and does not read the file.
C4_SecondCallIdentical ==
    \A t \in Tasks :
       SecondCall(t) =>
          /\ result[t] = "ok"
          /\ ~tg[t].didRead
          /\ meta[t] = tg[t].expect

\* C4 (amended): the second call succeeds without reading the file and
\* returns the entry cached at its lookup; that is the metadata the first
\* call returned unless another call's insert replaced the entry in between.
C4_SecondCallCached ==
    \A t \in Tasks :
       SecondCall(t) =>
          /\ result[t] = "ok"
          /\ ~tg[t].didRead
          /\ ~tg[t].wrote
          /\ (~tg[t].ovw => meta[t] = tg[t].expect)

\* a second call that hit the entry the first call returned
C4_Witness ==
    \E t \in Tasks :
       /\ SecondCall(t) /\ ~tg[t].didRead
       /\ ~tg[t].ovw /\ meta[t] = tg[t].expect

\* C5: the first get_or_create_metadata(p) started after an evict(p) returned
\* does not return metadata that was read from the file before that evict
\* removed p's entry: it invokes compute_metadata and returns what it read.
C5_FreshReadAfterEvict ==
    \A t \in Tasks :
       op[t] = "get_or_create_metadata" /\ tg[t].afterEvict /\ pc[t] = "done"
          => tg[t].didRead \/ ~tg[t].hitStale

\* a task holding the session get_or_create_session returned to it
HasHandle(t) ==
    /\ op[t] \in SessionOps
    /\ \/ pc[t] \in {"q_sql", "q_collect"}
       \/ pc[t] = "done" /\ op[t] = "get_or_create_session" /\ result[t] = "ok"

\* C6: while no evict removes it, the session entry of p is the session of
\* the call whose insert happened last, and every session a call returns has
\* its path registered as table "t".
C6_LastInsertWins ==
    /\ \A p \in Paths :
          /\ pg[p].lastIns # 0 <=> p \in DOMAIN sessions
          /\ p \in DOMAIN sessions => sessions[p] = pg[p].lastIns
    /\ \A t \in Tasks : HasHandle(t) => SessionBuilt(ctx[t], path[t])

\* two calls on one path each built and inserted a session of its own; the
\* map holds the one inserted last
C6_Witness ==
    \E t, u \in Tasks :
       /\ t # u /\ path[t] = path[u]
       /\ HasHandle(t) /\ HasHandle(u) /\ pc[t] = "done" /\ pc[u] = "done"
       /\ tg[t].built /\ tg[u].built /\ ctx[t] # ctx[u]
       /\ tg[t].wrote /\ tg[u].wrote
       /\ sessions[path[t]] = ctx[u]

\* C8: once an evict(p) has returned, no lookup for p can hit a value that a
\* get_or_create call had built before that evict removed p's entry.
C8_NoStaleEntry ==
    \A p \in Paths :
       /\ p \in DOMAIN sessions => ~pg[p].staleS
       /\ p \in DOMAIN metadata => ~pg[p].staleM

\* C7: an evict(p) that runs while a read_data / count_data call holds a
\* session handle for p leaves the handle usable: the handle keeps p
\* registered as table "t", the call is not cancelled, and it ends as it would
\* have without the evict (with its rows, or with the error of its own
\* filter or file read, never for a missing table).
C7_EvictKeepsHandles ==
    \A t \in Tasks :
       tg[t].evicted =>
          /\ SessionBuilt(ctx[t], path[t])
          /\ pc[t] \in {"q_sql", "q_collect", "done"}
          /\ pc[t] = "done" => result[t] \in {"ok", "plan_err", "collect_err"}

\* a read finished successfully on its handle although its path was evicted
\* while it was querying
C7_Witness ==
    \E t \in Tasks :
       /\ tg[t].evicted /\ op[t] \in {"read_data", "count_data"}
       /\ pc[t] = "done" /\ result[t] = "ok"
       /\ path[t] \notin DOMAIN sessions

\* positions at which a task opens or registers a file, parses a footer, or
\* plans and executes a query
WorkPcs == {"s_register", "m_compute", "q_sql", "q_collect", "x_register"}

\* C9: a task that builds a session, computes metadata or plans / executes a
\* query holds neither cache mutex; a mutex is held only at a single map
\* lookup, insert or remove.
C9_NoLockWhileWorking ==
    \A t \in Tasks :
       /\ pc[t] \in WorkPcs => sessLock # t /\ metaLock # t
       /\ sessLock = t => pc[t] \in {"s_lookup", "s_insert", "e_remove_s"}
       /\ metaLock = t => pc[t] \in {"m_lookup", "m_insert", "e_remove_m"}
       /\ ~(sessLock = t /\ metaLock = t)

\* one task executes a query and has released the mutex of its lookup while
\* another task is inside a critical section of the same mutex
C9_Witness ==
    \E t, u \in Tasks :
       /\ pc[t] = "q_collect"
       /\ pc[u] \in {"s_lookup", "s_insert", "e_remove_s"}
       /\ sessLock = u

\* C10: execute_sql runs the SQL against the cached session of its path: the
\* session it queries was taken from the session map, or was built by it
\* and inserted into the map.
C10_ExecuteSqlUsesCache ==
    \A t \in Tasks :
       op[t] = "execute_sql" /\ pc[t] \in {"q_sql", "q_collect"}
          => ~tg[t].built \/ tg[t].wrote

\* ------------------------------------------------- rows and values of a file
\* parquet::record::Field: a tagged value; i is the payload of a number, s of
\* a string, c the children (the elements of a list, the <<name, value>>
\* columns of a group, the <<key, value>> entries of a map)
Field(k, i, s, c) == [k |-> k, i |-> i, s |-> s, c |-> c]
FInt(i) == Field("Int", i, "", <<>>)
FStr(s) == Field("Str", 0, s, <<>>)
FNull == Field("Null", 0, "", <<>>)
FGroup(cols) == Field("Group", 0, "", cols)
FList(elems) == Field("ListInternal", 0, "", elems)
FMap(entries) == Field("MapInternal", 0, "", entries)

\* a file with nested columns: a list, a map and a record
FileNested == [kind |-> "parquet", num_rows |-> 2,
               schema |-> <<"id", "tags", "attrs", "rec">>]
\* the files the row-level functions are studied on
DataFiles == FileStates \cup {FileNested}

\* the value row i of file f holds in column c (0-based row index): id is an
\* integer column, name a nullable string, tags a list of nullable integers,
\* attrs a map from strings to integers, rec a record
CellOf(f, i, c) ==
    CASE c = "id" -> FInt(i)
      [] c = "name" -> IF i = 1 THEN FNull ELSE FStr(IF i = 0 THEN "x" ELSE "y")
      [] c = "tags" -> FList(IF i = 0 THEN <<>> ELSE <<FInt(7), FNull>>)
      [] c = "attrs" -> FMap(IF i = 0 THEN <<<<FStr("k"), FInt(1)>>>>
                             ELSE <<<<FStr("a"), FInt(1)>>, <<FStr("b"), FInt(2)>>>>)
      [] c = "rec" -> FGroup(<<<<"n", FNull>>, <<"l", FList(<<FStr("z")>>)>>>>)

\* Row: the columns of one record as <<name, value>> pairs in schema order
RowAt(f, i) == [j \in 1..Len(f.schema) |-> <<f.schema[j], CellOf(f, i, f.schema[j])>>]
\* the rows of a readable file in file order, as its row iterator yields them
RowsOf(f) == [n \in 1..f.num_rows |-> RowAt(f, n - 1)]

\* ------------------------------------------------------------ value codec
\* serde_json::Value: a tagged value; an object is a sequence of <<key, value>>
\* entries with distinct keys, an insert of a present key replaces its value
JV(j, i, s, c) == [j |-> j, i |-> i, s |-> s, c |-> c]
JNum(i) == JV("Number", i, "", <<>>)
JStr(s) == JV("String", 0, s, <<>>)
JNull == JV("Null", 0, "", <<>>)
JBool(b) == JV("Bool", b, "", <<>>)
\* a number made from an f64: i is the value in thousandths
JFloat(i) == JV("Float", i, "", <<>>)
JArr(items) == JV("Array", 0, "", items)
JObj(entries) == JV("Object", 0, "", entries)

\* an insert that keeps the value of a key already present
ObjInsertKeepFirst(entries, key, val) ==
    IF \E n \in 1..Len(entries) : entries[n][1] = key THEN entries
    ELSE Append(entries, <<key, val>>)

\* serde_json::Map is an IndexMap when the build enables the crate feature
\* preserve_order and a BTreeMap otherwise; the build of the call decides
PreserveOrder == call.preserve_order
\* the keys in use, in the byte order a BTreeMap<String, _> keeps them in
KeysInByteOrder ==
    <<"\"a\"", "\"b\"", "\"k\"", "1", "2", "a", "attrs", "b", "d", "deep", "id",
      "in", "k", "l", "n", "name", "rec", "tags">>
KeyRank(key) == CHOOSE n \in 1..Len(KeysInByteOrder) : KeysInByteOrder[n] = key

\* serde_json::Map::insert: the value of a present key is replaced in place;
\* a new key goes to the end (IndexMap) or to its place in key order (BTreeMap)
ObjInsert(entries, key, val) ==
    IF \E n \in 1..Len(entries) : entries[n][1] = key
    THEN [n \in 1..Len(entries) |->
            IF entries[n][1] = key THEN <<key, val>> ELSE entries[n]]
    ELSE IF PreserveOrder THEN Append(entries, <<key, val>>)
    ELSE LET before == Cardinality({n \in 1..Len(entries) :
                                      KeyRank(entries[n][1]) < KeyRank(key)})
         IN SubSeq(entries, 1, before) \o <<<<key, val>>>>
            \o SubSeq(entries, before + 1, Len(entries))

\* the texts of a sequence joined with a separator
RECURSIVE Join(_, _)
Join(texts, sep) ==
    IF texts = <<>> THEN ""
    ELSE IF Len(texts) = 1 THEN texts[1]
    ELSE texts[1] \o sep \o Join(Tail(texts), sep)

\* Value::to_string(): the compact JSON text of a value
RECURSIVE json_to_string(_)
json_to_string(v) ==
    CASE v.j = "Number" -> ToString(v.i)
      [] v.j = "Bool" -> IF v.i = 1 THEN "true" ELSE "false"
      [] v.j = "String" -> "\"" \o v.s \o "\""
      [] v.j = "Null" -> "null"
      [] v.j = "Array" ->
            "[" \o Join([n \in 1..Len(v.c) |-> json_to_string(v.c[n])], ",") \o "]"
      [] v.j = "Object" ->
            "{" \o Join([n \in 1..Len(v.c) |->
                          "\"" \o v.c[n][1] \o "\":" \o json_to_string(v.c[n][2])], ",") \o "}"

\* ---- the scalar variants: numbers of fixed width, dates, times, floats, bytes
\* Rust's / and % on signed integers round toward zero
rust_div(a, b) == IF a >= 0 THEN a \div b ELSE -((-a) \div b)
rust_rem(a, b) == a - b * rust_div(a, b)

\* `x as u32`: the low 32 bits of x, kept as two 16-bit halves
HalfWord == 65536
as_u32(x) == [hi |-> (x \div HalfWord) % HalfWord, lo |-> x % HalfWord]
\* a < b on u32 values
u32_lt(a, b) == a.hi < b.hi \/ (a.hi = b.hi /\ a.lo < b.lo)
\* the number a u32 below 2^31 stands for
u32_value(a) == a.hi * HalfWord + a.lo

\* the decimal text of n >= 0, with zeros in front up to width w
RECURSIVE Zeros(_)
Zeros(k) == IF k <= 0 THEN "" ELSE "0" \o Zeros(k - 1)
Pad(n, w) == Zeros(w - Len(ToString(n))) \o ToString(n)

\* f64::to_string of a finite value given in thousandths: the shortest
\* decimal text, no fraction for a whole number
FloatText(i) ==
    LET a == IF i < 0 THEN -i ELSE i
        whole == ToString(a \div 1000)
        f == a % 1000
        frac == IF f = 0 THEN ""
                ELSE IF f % 100 = 0 THEN "." \o ToString(f \div 100)
                ELSE IF f % 10 = 0 THEN "." \o Pad(f \div 10, 2)
                ELSE "." \o Pad(f, 3)
    IN (IF i < 0 THEN "-" ELSE "") \o whole \o frac

\* chrono: the days from 1970-01-01 to NaiveDate::MIN and NaiveDate::MAX
\* (-262143-01-01 and +262142-12-31)
MinDateDays == -96465292
MaxDateDays == 95026236

\* the calendar date that lies `days` days after 1970-01-01
CivilFromDays(days) ==
    LET z == days + 719468
        era == z \div 146097
        doe == z - era * 146097
        yoe == (doe - (doe \div 1460) + (doe \div 36524) - (doe \div 146096)) \div 365
        doy == doe - (365 * yoe + (yoe \div 4) - (yoe \div 100))
        mp == (5 * doy + 2) \div 153
        d == doy - ((153 * mp + 2) \div 5) + 1
        m == IF mp < 10 THEN mp + 3 ELSE mp - 9
    IN [y |-> yoe + era * 400 + (IF m <= 2 THEN 1 ELSE 0), m |-> m, d |-> d]

\* date.format("%Y-%m-%d"): four digits for the years 0..9999, a sign in
\* front of any other year
DateText(date) ==
    (IF date.y < 0 THEN "-" \o Pad(-date.y, 4)
     ELSE IF date.y > 9999 THEN "+" \o ToString(date.y)
     ELSE Pad(date.y, 4))
    \o "-" \o Pad(date.m, 2) \o "-" \o Pad(date.d, 2)

\* epoch + chrono::Duration::days(v): the addition panics out of NaiveDate's range
DatePanics(v) == v < MinDateDays \/ v > MaxDateDays

\* "%H:%M:%S" of a second of the day (sec 60 for a leap second)
ClockText(sod, leap) ==
    Pad(sod \div 3600, 2) \o ":" \o Pad((sod % 3600) \div 60, 2) \o ":"
    \o Pad((sod % 60) + (IF leap THEN 1 ELSE 0), 2)

NanosPerSec == 1000000000
\* NaiveTime's check of the nanosecond part for a second of the day
NanosAccepted(sod, nsecs) ==
    /\ u32_lt(nsecs, as_u32(2 * NanosPerSec))
    /\ (~u32_lt(nsecs, as_u32(NanosPerSec)) => sod % 60 = 59)

\* DateTime::from_timestamp(secs, nsecs) followed by dt.format with `digits`
\* fractional digits: none when the nanosecond part is not accepted
FormatTimestamp(secs, nsecs, digits) ==
    LET days == secs \div 86400
        sod == secs % 86400
    IN IF DatePanics(days) \/ ~NanosAccepted(sod, nsecs) THEN [some |-> FALSE, text |-> ""]
       ELSE LET n == u32_value(nsecs)
                leap == n >= NanosPerSec
                frac == IF leap THEN n - NanosPerSec ELSE n
            IN [some |-> TRUE,
                text |-> DateText(CivilFromDays(days)) \o " " \o ClockText(sod, leap)
                         \o "." \o (IF digits = 3 THEN Pad(frac \div 1000000, 3)
                                    ELSE Pad(frac \div 1000, 6))]

\* the arm of TimestampMillis / TimestampMicros up to the Option it matches on
timestamp_millis(v) ==
    FormatTimestamp(rust_div(v, 1000), as_u32(rust_rem(v, 1000) * 1000000), 3)
timestamp_micros(v) ==
    FormatTimestamp(rust_div(v, 1000000), as_u32(rust_rem(v, 1000000) * 1000), 6)

\* the arm of TimeMillis / TimeMicros: NaiveTime::from_hms_milli_opt and
\* from_hms_micro_opt on the parts cast to u32, then time.format. The parts
\* v / (3600 * perSec), (v % (3600 * perSec)) / (60 * perSec) and
\* (v % (60 * perSec)) / perSec are computed through v / perSec, which gives
\* the same values for divisions that round toward zero
time_of_day(v, perSec, digits) ==
    LET whole == rust_div(v, perSec)
        hours == as_u32(rust_div(whole, 3600))
        minutes == as_u32(rust_rem(rust_div(whole, 60), 60))
        seconds == as_u32(rust_rem(whole, 60))
        sub == as_u32(rust_rem(v, perSec))
    IN IF /\ u32_lt(hours, as_u32(24)) /\ u32_lt(minutes, as_u32(60))
          /\ u32_lt(seconds, as_u32(60))
          /\ u32_lt(sub, as_u32(2 * perSec))
          /\ (~u32_lt(sub, as_u32(perSec)) => u32_value(seconds) = 59)
       THEN LET leap == u32_value(sub) >= perSec
                frac == IF leap THEN u32_value(sub) - perSec ELSE u32_value(sub)
            IN [some |-> TRUE,
                text |-> ClockText(u32_value(hours) * 3600 + u32_value(minutes) * 60
                                   + u32_value(seconds), leap)
                         \o "." \o Pad(frac, digits)]
       ELSE [some |-> FALSE, text |-> ""]

\* a float: s is its class ("finite", "NaN", "inf", "-inf"), i a finite
\* value in thousandths
\* serde_json::Number::from_f64: none for a value that is not finite
from_f64_of_any(i, class) == [some |-> TRUE, v |-> IF class = "finite" THEN i ELSE 1]
from_f64(i, class) == [some |-> class = "finite", v |-> i]

\* base64::engine::general_purpose::STANDARD.encode
Base64Alphabet ==
    <<"A", "B", "C", "D", "E", "F", "G", "H", "I", "J", "K", "L", "M", "N", "O", "P",
      "Q", "R", "S", "T", "U", "V", "W", "X", "Y", "Z", "a", "b", "c", "d", "e", "f",
      "g", "h", "i", "j", "k", "l", "m", "n", "o", "p", "q", "r", "s", "t", "u", "v",
      "w", "x", "y", "z", "0", "1", "2", "3", "4", "5", "6", "7", "8", "9", "+", "/">>
Sextet(n) == Base64Alphabet[n + 1]
RECURSIVE base64_encode(_)
base64_encode(bytes) ==
    IF bytes = <<>> THEN ""
    ELSE IF Len(bytes) = 1
    THEN Sextet(bytes[1] \div 4) \o Sextet((bytes[1] % 4) * 16) \o "=="
    ELSE IF Len(bytes) = 2
    THEN Sextet(bytes[1] \div 4) \o Sextet((bytes[1] % 4) * 16 + bytes[2] \div 16)
         \o Sextet((bytes[2] % 16) * 4) \o "="
    ELSE Sextet(bytes[1] \div 4) \o Sextet((bytes[1] % 4) * 16 + bytes[2] \div 16)
         \o Sextet((bytes[2] % 16) * 4 + bytes[3] \div 64) \o Sextet(bytes[3] % 64)
         \o base64_encode(SubSeq(bytes, 4, Len(bytes)))

RECURSIVE field_to_json(_)
RECURSIVE ObjOfColumns(_, _)
RECURSIVE ObjOfEntries(_, _)

\* the loop of row_to_json: every column converted and inserted by its name
ObjOfColumns(cols, acc) ==
    IF cols = <<>> THEN acc
    ELSE ObjOfColumns(Tail(cols),
                      ObjInsert(acc, Head(cols)[1], field_to_json(Head(cols)[2])))

\* the loop of the MapInternal arm: the key is the JSON text of the converted key
ObjOfEntries(es, acc) ==
    IF es = <<>> THEN acc
    ELSE ObjOfEntries(Tail(es),
                      ObjInsert(acc, json_to_string(field_to_json(Head(es)[1])),
                                field_to_json(Head(es)[2])))

\* utils::row_to_json
row_to_json(row) == JObj(ObjOfColumns(row, <<>>))

\* utils::field_to_json
field_to_json(fld) ==
    CASE fld.k = "Bool" -> JBool(fld.i)
      [] fld.k = "Int" -> JNum(fld.i)
      [] fld.k \in {"Float", "Double", "Float16"} ->
            LET n == from_f64(fld.i, fld.s)
            IN IF n.some THEN JFloat(n.v) ELSE JNum(0)
      [] fld.k = "Decimal" -> JStr(fld.s)
      [] fld.k = "Str" -> JStr(fld.s)
      [] fld.k = "Bytes" -> JStr(base64_encode(fld.c))
      [] fld.k = "Date" -> JStr(DateText(CivilFromDays(fld.i)))
      [] fld.k = "TimestampMillis" ->
            LET dt == timestamp_millis(fld.i)
            IN IF dt.some THEN JStr(dt.text) ELSE JNum(fld.i)
      [] fld.k = "TimestampMicros" ->
            LET dt == timestamp_micros(fld.i)
            IN IF dt.some THEN JStr(dt.text) ELSE JNum(fld.i)
      [] fld.k = "TimeMillis" ->
            LET time == time_of_day(fld.i, 1000, 3)
            IN IF time.some THEN JStr(time.text) ELSE JNum(fld.i)
      [] fld.k = "TimeMicros" ->
            LET time == time_of_day(fld.i, 1000000, 6)
            IN IF time.some THEN JStr(time.text) ELSE JNum(fld.i)
      [] fld.k = "Null" -> JNull
      [] fld.k = "Group" -> row_to_json(fld.c)
      [] fld.k = "ListInternal" -> JArr([n \in 1..Len(fld.c) |-> field_to_json(fld.c[n])])
      [] fld.k = "MapInternal" -> JObj(ObjOfEntries(fld.c, <<>>))

\* a text conversion that renders nested values through field_to_json
field_to_string_recursive(fld) ==
    CASE fld.k \in {"Group", "ListInternal", "MapInternal"} ->
            json_to_string(field_to_json(fld))
      [] fld.k = "Null" -> ""
      [] OTHER -> ToString(fld.i)

\* utils::field_to_string
field_to_string(fld) ==
    CASE fld.k = "Bool" -> IF fld.i = 1 THEN "true" ELSE "false"
      [] fld.k = "Int" -> ToString(fld.i)
      [] fld.k \in {"Float", "Double", "Float16"} ->
            IF fld.s = "finite" THEN FloatText(fld.i) ELSE fld.s
      [] fld.k = "Decimal" -> fld.s
      [] fld.k = "Str" -> fld.s
      [] fld.k = "Bytes" -> base64_encode(fld.c)
      [] fld.k = "Date" -> DateText(CivilFromDays(fld.i))
      [] fld.k = "TimestampMillis" ->
            LET dt == timestamp_millis(fld.i)
            IN IF dt.some THEN dt.text ELSE ToString(fld.i)
      [] fld.k = "TimestampMicros" ->
            LET dt == timestamp_micros(fld.i)
            IN IF dt.some THEN dt.text ELSE ToString(fld.i)
      [] fld.k = "TimeMillis" ->
            LET time == time_of_day(fld.i, 1000, 3)
            IN IF time.some THEN time.text ELSE ToString(fld.i)
      [] fld.k = "TimeMicros" ->
            LET time == time_of_day(fld.i, 1000000, 6)
            IN IF time.some THEN time.text ELSE ToString(fld.i)
      [] fld.k = "Null" -> ""
      [] fld.k = "Group" -> "[GROUP]"
      [] fld.k = "ListInternal" -> "[LIST]"
      [] fld.k = "MapInternal" -> "[MAP]"

\* ---------------------------------------------------------------- JSON text
\* the tokens of a JSON text; white space carries no meaning and is left out
Tok(t, i, s) == [t |-> t, i |-> i, s |-> s]
Punct(t) == Tok(t, 0, "")

\* flatten a sequence of token sequences, with a separator token between them
RECURSIVE JoinToks(_, _)
JoinToks(parts, sep) ==
    IF parts = <<>> THEN <<>>
    ELSE IF Len(parts) = 1 THEN parts[1]
    ELSE parts[1] \o <<sep>> \o JoinToks(Tail(parts), sep)

\* serde_json::to_string_pretty
RECURSIVE to_string_pretty(_)
to_string_pretty(v) ==
    CASE v.j = "Number" -> <<Tok("num", v.i, "")>>
      [] v.j = "String" -> <<Tok("str", 0, v.s)>>
      [] v.j = "Null" -> <<Punct("null")>>
      [] v.j = "Array" ->
            <<Punct("[")>>
            \o JoinToks([n \in 1..Len(v.c) |-> to_string_pretty(v.c[n])], Punct(","))
            \o <<Punct("]")>>
      [] v.j = "Object" ->
            <<Punct("{")>>
            \o JoinToks([n \in 1..Len(v.c) |->
                           <<Tok("str", 0, v.c[n][1]), Punct(":")>>
                           \o to_string_pretty(v.c[n][2])], Punct(","))
            \o <<Punct("}")>>

\* serde_json::from_str, by recursive descent: the value at the head of the
\* tokens and the tokens after it
RECURSIVE ParseValue(_)
RECURSIVE ParseItems(_, _)
RECURSIVE ParseMembers(_, _)
ParseValue(toks) ==
    LET h == Head(toks)
        rest == Tail(toks)
    IN CASE h.t = "num" -> [v |-> JNum(h.i), rest |-> rest]
         [] h.t = "str" -> [v |-> JStr(h.s), rest |-> rest]
         [] h.t = "null" -> [v |-> JNull, rest |-> rest]
         [] h.t = "[" -> IF Head(rest).t = "]"
                         THEN [v |-> JArr(<<>>), rest |-> Tail(rest)]
                         ELSE ParseItems(rest, <<>>)
         [] h.t = "{" -> IF Head(rest).t = "}"
                         THEN [v |-> JObj(<<>>), rest |-> Tail(rest)]
                         ELSE ParseMembers(rest, <<>>)

ParseItems(toks, acc) ==
    LET r == ParseValue(toks)
    IN IF Head(r.rest).t = ","
       THEN ParseItems(Tail(r.rest), Append(acc, r.v))
       ELSE [v |-> JArr(Append(acc, r.v)), rest |-> Tail(r.rest)]

ParseMembers(toks, acc) ==
    LET key == Head(toks).s
        r == ParseValue(Tail(Tail(toks)))
    IN IF Head(r.rest).t = ","
       THEN ParseMembers(Tail(r.rest), ObjInsert(acc, key, r.v))
       ELSE [v |-> JObj(ObjInsert(acc, key, r.v)), rest |-> Tail(r.rest)]

from_str(toks) == ParseValue(toks).v

\* ------------------------------------------------------- services::export
\* usize arithmetic, narrowed to the width the checker's integers hold
WordBits == 30
UsizeModulus == 2 ^ WordBits
\* a - b on usize: the build with overflow checks panics below zero, the
\* build without them wraps around
usize_sub(a, b, checked) ==
    [panic |-> checked /\ a < b, v |-> (a - b) % UsizeModulus]
Min(a, b) == IF a <= b THEN a ELSE b
Max(a, b) == IF a >= b THEN a ELSE b
\* Option<usize>::None
Absent == -1

\* what is at the export path: nothing, a file with its content, or a place
\* where File::create fails (missing directory, no permission)
Item(kind, bytes, fields, toks) ==
    [kind |-> kind, bytes |-> bytes, fields |-> fields, toks |-> toks]
AbsentFile == [state |-> "absent", items |-> <<>>]
Unwritable == [state |-> "unwritable", items |-> <<>>]
OldFile == [state |-> "file", items |-> <<Item("bytes", <<1>>, <<>>, <<>>)>>]
DestStates == {AbsentFile, OldFile, Unwritable}
WrittenFile(items) == [state |-> "file", items |-> items]

\* the cell of a CSV record: the first column of the row with that name
CsvCell(row, col_name) ==
    IF \E n \in 1..Len(row) : row[n][1] = col_name
    THEN field_to_string(row[CHOOSE n \in 1..Len(row) :
                                /\ row[n][1] = col_name
                                /\ \A m \in 1..(n - 1) : row[m][1] # col_name][2])
    ELSE ""

\* a CSV writer that puts the byte order mark after the header record
export_to_csv_header_first(dest, columns, rows) ==
    IF dest.state = "unwritable" THEN [err |-> "io_err", dest |-> dest]
    ELSE [err |-> "",
          dest |-> WrittenFile(
             <<Item("record", <<>>, columns, <<>>),
               Item("bytes", <<239, 187, 191>>, <<>>, <<>>)>>
             \o [n \in 1..Len(rows) |->
                   Item("record", <<>>,
                        [k \in 1..Len(columns) |-> CsvCell(rows[n], columns[k])],
                        <<>>)])]

\* export_to_csv(path, columns, rows): the error and what is at path afterwards
export_to_csv(dest, columns, rows) ==
    IF dest.state = "unwritable" THEN [err |-> "io_err", dest |-> dest]
    ELSE [err |-> "",
          dest |-> WrittenFile(
             <<Item("bytes", <<239, 187, 191>>, <<>>, <<>>),
               Item("record", <<>>, columns, <<>>)>>
             \o [n \in 1..Len(rows) |->
                   Item("record", <<>>,
                        [k \in 1..Len(columns) |-> CsvCell(rows[n], columns[k])],
                        <<>>)])]

\* a JSON export that renders every row through the flat text conversion
export_to_json_flat(dest, rows) ==
    IF dest.state = "unwritable" THEN [err |-> "io_err", dest |-> dest]
    ELSE [err |-> "",
          dest |-> WrittenFile(<<Item("text", <<>>, <<>>,
             to_string_pretty(JArr([n \in 1..Len(rows) |->
                JObj([k \in 1..Len(rows[n]) |->
                        <<rows[n][k][1], JStr(field_to_string(rows[n][k][2]))>>])])))>>)]

\* export_to_json(path, rows)
export_to_json(dest, rows) ==
    IF dest.state = "unwritable" THEN [err |-> "io_err", dest |-> dest]
    ELSE [err |-> "",
          dest |-> WrittenFile(<<Item("text", <<>>, <<>>,
             to_string_pretty(JArr([n \in 1..Len(rows) |-> row_to_json(rows[n])])))>>)]

\* a lowering that takes every unknown format name for "csv"
to_lowercase_or_csv(s) ==
    CASE s \in {"json", "JSON"} -> "json"
      [] OTHER -> "csv"

\* String::to_lowercase on the format names in use
to_lowercase(s) ==
    CASE s \in {"csv", "CSV"} -> "csv"
      [] s \in {"json", "JSON"} -> "json"
      [] OTHER -> s

\* what a call under study returned (result: "ok", an error, or "panic"),
\* the row count it reported, and what is at the export path afterwards
Out(r, n, d) == [result |-> r, count |-> n, dest |-> d]

\* export_data(source_path, export_path, format, offset, limit) on a call
\* record c: c.file is what is at source_path, c.dest what is at export_path,
\* c.checked tells whether the build checks integer overflow
export_data(c) ==
    IF c.file.kind = "missing" THEN Out("io_err", 0, c.dest)
    ELSE IF c.file.kind = "corrupt" THEN Out("format_err", 0, c.dest)
    ELSE
      LET total_rows == c.file.num_rows
          columns == c.file.schema
          iter == RowsOf(c.file)
          offset == IF c.offset = Absent THEN 0 ELSE c.offset
          skipped == Min(offset, Len(iter))
          diff == usize_sub(total_rows, offset, c.checked)
          limit == IF c.limit = Absent THEN diff.v ELSE c.limit
          rows_to_export == Min(limit, diff.v)
          rows_data == SubSeq(iter, skipped + 1,
                              skipped + Min(rows_to_export, Len(iter) - skipped))
          format == to_lowercase(c.format)
          written ==
             CASE format = "csv" -> export_to_csv(c.dest, columns, rows_data)
               [] format = "json" -> export_to_json(c.dest, rows_data)
               [] OTHER -> [err |-> "unsupported_format", dest |-> c.dest]
      IN IF diff.panic THEN Out("panic", 0, c.dest)
         ELSE IF written.err # "" THEN Out(written.err, 0, written.dest)
         ELSE Out("ok", Len(rows_data), written.dest)

\* the arguments and surroundings of the export calls under study
Formats == {"csv", "CSV", "json", "JSON", "xml"}
ExportCalls ==
    [fn : {"export_data"}, path : Contended, file : DataFiles, dest : DestStates,
     format : Formats, offset : {Absent} \cup 0..MaxOffset,
     limit : {Absent} \cup 0..MaxLimit, checked : BOOLEAN,
     preserve_order : BOOLEAN]

\* the cache as earlier calls for path "a" can have left it
CachedMetadata ==
    {EmptyMap} \cup {MapInsert(EmptyMap, "a", m) : m \in BuiltMetadata}
InitCache(hasSession, m) ==
    /\ sessions = IF hasSession THEN MapInsert(EmptyMap, "a", 1) ELSE EmptyMap
    /\ heap = IF hasSession THEN MapInsert(EmptyMap, 1, Registered("a")) ELSE EmptyMap
    /\ metadata = m
    /\ sessLock = NoTask
    /\ metaLock = NoTask
    /\ pc = [t \in Tasks |-> "idle"]
    /\ op = [t \in Tasks |-> "idle"]
    /\ path = [t \in Tasks |-> ""]
    /\ ctx = [t \in Tasks |-> NoCtx]
    /\ meta = [t \in Tasks |-> NoMeta]
    /\ result = [t \in Tasks |-> ""]
    /\ calls = 0
    /\ tg = [t \in Tasks |-> TaskHist0]
    /\ pg = [p \in Paths |->
               IF p = "a" /\ hasSession THEN [PathHist0 EXCEPT !.lastIns = 1]
               ELSE PathHist0]

cacheVars == <<sessions, metadata, sessLock, metaLock, heap,
               pc, op, path, ctx, meta, result, calls, tg, pg>>

\* an export that takes the row count from the cached metadata of its path
\* and caches what it reads
ExportDataThroughCache ==
    /\ call.fn = "export_data"
    /\ out = NoOut
    /\ IF call.path \in DOMAIN metadata /\ call.file.kind = "parquet"
       THEN /\ out' = export_data([call EXCEPT
                         !.file.num_rows = Min(@, metadata[call.path].num_rows)])
            /\ UNCHANGED metadata
       ELSE /\ out' = export_data(call)
            /\ metadata' = IF call.file.kind = "parquet"
                           THEN MapInsert(metadata, call.path, compute_metadata(call.file).meta)
                           ELSE metadata
    /\ UNCHANGED <<sessions, sessLock, metaLock, heap,
                   pc, op, path, ctx, meta, result, calls, tg, pg, call>>

\* an export whose confirmation reports the requested limit
ExportDataReportsLimit ==
    /\ call.fn = "export_data"
    /\ out = NoOut
    /\ out' = LET o == export_data(call)
              IN IF o.result = "ok" /\ call.limit # Absent
                 THEN [o EXCEPT !.count = call.limit] ELSE o
    /\ UNCHANGED <<cacheVars, call>>

\* commands::data::export_data: the handler calls export::export_data, which
\* takes no cache
ExportData ==
    /\ call.fn = "export_data"
    /\ out = NoOut
    /\ out' = export_data(call)
    /\ UNCHANGED <<cacheVars, call>>

InitExport ==
    /\ \E hasSession \in BOOLEAN, m \in CachedMetadata : InitCache(hasSession, m)
    /\ call \in ExportCalls
    /\ out = NoOut

NextExport == ExportData
SpecExport == InitExport /\ [][NextExport]_vars

\* ------------------------------------------------- properties of the export
\* C11: an export, successful or failing, changes neither cache map nor a
\* session or a mutex, and its outcome is the one export_data computes from
\* the file, the export path and its arguments alone, whatever is cached for
\* its path.
C11_ExportBypassesCache ==
    [][out' # out =>
          /\ sessions' = sessions /\ metadata' = metadata /\ heap' = heap
          /\ sessLock' = sessLock /\ metaLock' = metaLock
          /\ out' = export_data(call)]_vars

\* an export of a path succeeded with the rows of the file while the cache
\* holds a session and a metadata entry with another row count for that path
C11_Witness ==
    /\ out # NoOut /\ out.result = "ok"
    /\ call.path \in DOMAIN sessions /\ call.path \in DOMAIN metadata
    /\ metadata[call.path].num_rows < call.file.num_rows
    /\ out.count = call.file.num_rows

\* ------------------------------------------------ read_data and count_data
\* Option<String>: the filter argument
NoFilter == [some |-> FALSE, text |-> ""]
SomeFilter(s) == [some |-> TRUE, text |-> s]
FilterTexts == {"", "  ", "id > 0", " id > 0 ", "id >"}
Filters == {NoFilter} \cup {SomeFilter(s) : s \in FilterTexts}

\* str::trim on the filter texts in use
trim(s) ==
    CASE s = "  " -> ""
      [] s = " id > 0 " -> "id > 0"
      [] OTHER -> s

\* a WHERE clause built from the trimmed filter text
where_clause_trimmed(filter) ==
    IF filter.some /\ trim(filter.text) # "" THEN <<"WHERE", trim(filter.text)>>
    ELSE <<>>

\* the WHERE clause both functions build: the text pieces of the format! call
where_clause(filter) ==
    IF filter.some /\ trim(filter.text) # "" THEN <<"WHERE", filter.text>>
    ELSE <<>>

\* format!("SELECT * FROM t {} LIMIT {} OFFSET {}", where_clause, limit, offset)
read_query(filter, limit, offset) ==
    <<"SELECT", "*", "FROM", "t">> \o where_clause(filter)
    \o <<"LIMIT", ToString(limit), "OFFSET", ToString(offset)>>

\* format!("SELECT COUNT(*) FROM t {}", where_clause)
count_query(filter) ==
    <<"SELECT", "COUNT(*)", "FROM", "t">> \o where_clause(filter)

\* --- the query engine behind ctx.sql(..) and df.collect()
\* the number a decimal text stands for
ParseNat(text) == CHOOSE n \in 0..(MaxOffset + MaxLimit + 1) : ToString(n) = text

\* the boolean expressions the engine understands, white space around them
\* ignored; any other text fails to plan
ValidPredicate(text) == trim(text) = "id > 0"
Satisfies(row, text) == \E n \in 1..Len(row) : row[n][1] = "id" /\ row[n][2].i > 0

\* what the engine makes of a query text
Plan(query) ==
    LET hasWhere == Len(query) >= 5 /\ query[5] = "WHERE"
        tail == IF hasWhere THEN SubSeq(query, 7, Len(query))
                ELSE SubSeq(query, 5, Len(query))
    IN [ok |-> ~hasWhere \/ ValidPredicate(query[6]),
        count |-> query[2] = "COUNT(*)",
        filtered |-> hasWhere,
        predicate |-> IF hasWhere THEN query[6] ELSE "",
        limited |-> tail # <<>>,
        limit |-> IF tail # <<>> THEN ParseNat(tail[2]) ELSE 0,
        offset |-> IF tail # <<>> THEN ParseNat(tail[4]) ELSE 0]

\* a file is stored in row groups of this many rows
RowGroupSize == 2
RowGroupsOf(f) ==
    [g \in 1..((f.num_rows + RowGroupSize - 1) \div RowGroupSize) |->
       SubSeq(RowsOf(f), (g - 1) * RowGroupSize + 1, Min(g * RowGroupSize, f.num_rows))]

\* the query has no ORDER BY: the engine scans the row groups of a file in
\* partitions and delivers the groups in the order the partitions produce
\* them, the rows of a group in their order
RECURSIVE Concat(_)
Concat(seqs) == IF seqs = <<>> THEN <<>> ELSE Head(seqs) \o Concat(Tail(seqs))
Orders(n) == {o \in [1..n -> 1..n] : \A i, j \in 1..n : i # j => o[i] # o[j]}
ScanOrders(f) == Orders(Len(RowGroupsOf(f)))
Scan(f, order) == Concat([g \in 1..Len(order) |-> RowGroupsOf(f)[order[g]]])

RECURSIVE SelectRows(_, _)
SelectRows(rows, text) ==
    IF rows = <<>> THEN <<>>
    ELSE (IF Satisfies(Head(rows), text) THEN <<Head(rows)>> ELSE <<>>)
         \o SelectRows(Tail(rows), text)

\* the rows a planned query yields on file f scanned in the given order
Execute(plan, f, order) ==
    LET scanned == Scan(f, order)
        kept == IF plan.filtered THEN SelectRows(scanned, plan.predicate) ELSE scanned
        from == Min(plan.offset, Len(kept))
    IN IF plan.limited
       THEN SubSeq(kept, from + 1, from + Min(plan.limit, Len(kept) - from))
       ELSE kept

\* --- the result rows as JSON: arrow's LineDelimitedWriter leaves out the
\* keys of null values and writes the values of lists, maps and records
RECURSIVE arrow_to_json(_)
RECURSIVE ArrowObjOfColumns(_, _)
ArrowObjOfColumns(cols, acc) ==
    IF cols = <<>> THEN acc
    ELSE ArrowObjOfColumns(Tail(cols),
            IF Head(cols)[2].k = "Null" THEN acc
            ELSE ObjInsert(acc, Head(cols)[1], arrow_to_json(Head(cols)[2])))
arrow_to_json(fld) ==
    CASE fld.k = "Int" -> JNum(fld.i)
      [] fld.k = "Str" -> JStr(fld.s)
      [] fld.k = "Null" -> JNull
      [] fld.k = "Group" -> JObj(ArrowObjOfColumns(fld.c, <<>>))
      [] fld.k = "ListInternal" -> JArr([n \in 1..Len(fld.c) |-> arrow_to_json(fld.c[n])])
      [] fld.k = "MapInternal" ->
            JObj([n \in 1..Len(fld.c) |-> <<fld.c[n][1].s, arrow_to_json(fld.c[n][2])>>])

\* writer.write(batch) for every batch, then every line parsed back
rows_to_json(rows) ==
    [n \in 1..Len(rows) |->
       from_str(to_string_pretty(JObj(ArrowObjOfColumns(rows[n], <<>>))))]

\* what read_data / count_data return: the result, the rows, the count
QueryOut(r, rows, n) == [result |-> r, rows |-> rows, count |-> n]

\* read_data(cache, path, offset, limit, filter) on call record c, with the
\* session for c.path cached or not and the engine scanning in `order`
read_data(c, cached, order) ==
    IF ~cached /\ c.file.kind # "parquet" THEN QueryOut("register_err", <<>>, 0)
    ELSE LET plan == Plan(read_query(c.filter, c.limit, c.offset))
         IN IF ~plan.ok THEN QueryOut("plan_err", <<>>, 0)
            ELSE IF c.file.kind # "parquet" THEN QueryOut("collect_err", <<>>, 0)
            ELSE LET rows == rows_to_json(Execute(plan, c.file, order))
                 IN QueryOut("ok", rows, Len(rows))

\* the batches a COUNT(*) query yields: one batch, one row, one Int64 column
CountBatches(n) == <<[type |-> "Int64", values |-> <<n>>]>>

\* an extraction that takes the first value whatever the column type
count_from_batches_any_type(batches) ==
    IF batches = <<>> THEN QueryOut("ok", <<>>, 0)
    ELSE IF Len(batches[1].values) = 0 THEN QueryOut("ok", <<>>, 0)
    ELSE QueryOut("ok", <<>>, batches[1].values[1])

\* the end of count_data: the count taken from the collected batches
count_from_batches(batches) ==
    IF batches = <<>> THEN QueryOut("ok", <<>>, 0)
    ELSE IF Len(batches[1].values) = 0 THEN QueryOut("ok", <<>>, 0)
    ELSE IF batches[1].type # "Int64" THEN QueryOut("downcast_err", <<>>, 0)
    ELSE QueryOut("ok", <<>>, batches[1].values[1])

\* count_data(cache, path, filter)
count_data(c, cached, order) ==
    IF ~cached /\ c.file.kind # "parquet" THEN QueryOut("register_err", <<>>, 0)
    ELSE LET plan == Plan(count_query(c.filter))
         IN IF ~plan.ok THEN QueryOut("plan_err", <<>>, 0)
            ELSE IF c.file.kind # "parquet" THEN QueryOut("collect_err", <<>>, 0)
            ELSE count_from_batches(CountBatches(Len(Execute(plan, c.file, order))))

\* cache.get_or_create_session(path) run to its end with no other task
\* running: a hit changes nothing, a miss on a readable file stores a new
\* session
SessionAlone(p, f) ==
    IF p \notin DOMAIN sessions /\ f.kind = "parquet"
    THEN /\ sessions' = MapInsert(sessions, p, FreshCtx(heap))
         /\ heap' = MapInsert(heap, FreshCtx(heap), Registered(p))
         /\ pg' = [pg EXCEPT ![p].lastIns = FreshCtx(heap)]
    ELSE UNCHANGED <<sessions, heap, pg>>

\* commands::data::read_parquet_data
ReadData ==
    /\ call.fn = "read_data"
    /\ out = NoOut
    /\ \E order \in ScanOrders(call.file) :
          out' = read_data(call, call.path \in DOMAIN sessions, order)
    /\ SessionAlone(call.path, call.file)
    /\ UNCHANGED <<metadata, sessLock, metaLock, pc, op, path, ctx, meta,
                   result, calls, tg, call>>

\* count_data that leaves the filter out of its query
CountDataUnfiltered ==
    /\ call.fn = "count_data"
    /\ out = NoOut
    /\ \E order \in ScanOrders(call.file) :
          out' = count_data([call EXCEPT !.filter = NoFilter],
                            call.path \in DOMAIN sessions, order)
    /\ SessionAlone(call.path, call.file)
    /\ UNCHANGED <<metadata, sessLock, metaLock, pc, op, path, ctx, meta,
                   result, calls, tg, call>>

\* commands::data::count_parquet_data
CountData ==
    /\ call.fn = "count_data"
    /\ out = NoOut
    /\ \E order \in ScanOrders(call.file) :
          out' = count_data(call, call.path \in DOMAIN sessions, order)
    /\ SessionAlone(call.path, call.file)
    /\ UNCHANGED <<metadata, sessLock, metaLock, pc, op, path, ctx, meta,
                   result, calls, tg, call>>

\* count_data from the point where df.collect() has returned the batches of
\* the call
CountCollected ==
    /\ call.fn = "count_collected"
    /\ out = NoOut
    /\ out' = count_from_batches(call.batches)
    /\ UNCHANGED <<cacheVars, call>>

\* the shapes a collected result can have: no batch, a batch without rows,
\* batches whose first column is a 64-bit integer column or another one
ColumnTypes == {"Int64", "UInt64", "Utf8", "Float64"}
RecordBatches ==
    {[type |-> ty, values |-> vs] :
        ty \in ColumnTypes, vs \in {<<>>, <<0>>, <<5>>, <<2, 3>>}}
CollectedCalls ==
    [fn : {"count_collected"}, path : Contended,
     batches : {<<>>} \cup {<<b>> : b \in RecordBatches}
               \cup {<<b1, b2>> : b1 \in RecordBatches, b2 \in RecordBatches}]

ReadCalls ==
    [fn : {"read_data"}, path : Contended, file : DataFiles, filter : Filters,
     offset : 0..MaxOffset, limit : 0..MaxLimit, preserve_order : BOOLEAN]
CountCalls ==
    [fn : {"count_data"}, path : Contended, file : DataFiles, filter : Filters,
     preserve_order : BOOLEAN]

InitQuery ==
    /\ \E hasSession \in BOOLEAN : InitCache(hasSession, EmptyMap)
    /\ call \in ReadCalls \cup CountCalls \cup CollectedCalls
    /\ out = NoOut

NextQuery == ReadData \/ CountData \/ CountCollected
SpecQuery == InitQuery /\ [][NextQuery]_vars

\* ------------------------------------------------------------------
\* properties of read_data and count_data

\* the rows of file f with 0-based indices offset .. min(offset+limit, n)-1
Window(f, offset, limit) ==
    SubSeq(RowsOf(f), offset + 1, Min(offset + limit, f.num_rows))

\* C12: for a file of n rows and no filter, a successful read_data(offset,
\* limit) returns exactly the rows offset .. min(offset+limit, n)-1 in file
\* order, that is min(limit, max(0, n-offset)) rows, none when offset >= n
C12_WindowInFileOrder ==
    (/\ call.fn = "read_data" /\ out # NoOut /\ out.result = "ok"
     /\ call.filter = NoFilter)
    => /\ out.rows = rows_to_json(Window(call.file, call.offset, call.limit))
       /\ out.count = Min(call.limit, Max(0, call.file.num_rows - call.offset))
       /\ (call.offset >= call.file.num_rows => out.rows = <<>>)

\* C12: the part that holds: the number of rows returned
C12_WindowSize ==
    (/\ call.fn = "read_data" /\ out # NoOut /\ out.result = "ok"
     /\ call.filter = NoFilter)
    => /\ out.count = Min(call.limit, Max(0, call.file.num_rows - call.offset))
       /\ (call.offset >= call.file.num_rows => out.rows = <<>>)

\* the read_data call the count is compared with: same path and filter,
\* offset 0, limit the row count of the file
ReadAll(c) ==
    [fn |-> "read_data", path |-> c.path, file |-> c.file, filter |-> c.filter,
     offset |-> 0, limit |-> c.file.num_rows]

\* C13: for every file and filter (absent and white space included) what
\* count_data returns equals the number of rows read_data(offset 0, limit
\* row count) returns for the same filter on the same path, whatever the
\* scan orders; the two fail together
C13_CountEqualsReadLength ==
    (call.fn = "count_data" /\ out # NoOut)
    => \A order \in ScanOrders(call.file) :
          LET r == read_data(ReadAll(call), call.path \in DOMAIN sessions, order)
          IN /\ r.result = out.result
             /\ out.result = "ok" => out.count = Len(r.rows)

C13_Witness ==
    /\ call.fn = "count_data" /\ out # NoOut /\ out.result = "ok"
    /\ call.filter.some /\ trim(call.filter.text) # ""
    /\ out.count > 0 /\ out.count < call.file.num_rows
    /\ \E o1, o2 \in ScanOrders(call.file) : o1 # o2

\* the rows with indices in [offset, offset+limit) and in [0, totalRows);
\* an absent offset is 0, an absent limit is all the rows from offset on
ExportWindow(c) ==
    LET offset == IF c.offset = Absent THEN 0 ELSE c.offset
        limit == IF c.limit = Absent THEN c.file.num_rows ELSE c.limit
    IN SubSeq(RowsOf(c.file), offset + 1, Min(offset + limit, c.file.num_rows))

\* what the writer of the format leaves at the export path for these rows
WrittenBy(c, rows) ==
    IF to_lowercase(c.format) = "csv"
    THEN export_to_csv(c.dest, c.file.schema, rows).dest
    ELSE export_to_json(c.dest, rows).dest

\* a call that names a readable source, a supported format and a place the
\* export file can be created at
Exportable(c) ==
    /\ c.fn = "export_data"
    /\ c.file.kind = "parquet"
    /\ to_lowercase(c.format) \in {"csv", "json"}
    /\ c.dest.state # "unwritable"

\* C14: for every offset, limit and totalRows, offset > totalRows and absent
\* values included, export_data exports max(0, min(limit, totalRows - offset))
\* rows without underflow or failure, exactly the rows of the window, and
\* succeeds with 0 rows when offset >= totalRows
C14_WindowWithoutUnderflow ==
    (Exportable(call) /\ out # NoOut)
    => /\ out.result = "ok"
       /\ out.count = Len(ExportWindow(call))
       /\ out.dest = WrittenBy(call, ExportWindow(call))

\* the format names that equal "csv" or "json" when compared without case
SupportedFormats == {"csv", "CSV", "json", "JSON"}

\* C15, as stated: a call with a format that is neither "csv" nor "json"
\* fails with the unsupported-format error and leaves the export path as it
\* was
C15_AlwaysUnsupportedFormatError ==
    (call.fn = "export_data" /\ out # NoOut /\ call.format \notin SupportedFormats)
    => /\ out.result = "unsupported_format"
       /\ out.dest = call.dest

\* C15: a call with a format that is neither "csv" nor "json" never
\* succeeds and leaves the export path as it was, neither created nor
\* truncated; the failure is the unsupported-format error when the source
\* was read (it is a readable parquet file and the row window was computed
\* without a panic); otherwise it is the failure of reading the source
C15_UnsupportedFormatUntouched ==
    (call.fn = "export_data" /\ out # NoOut /\ call.format \notin SupportedFormats)
    => /\ out.result # "ok"
       /\ out.dest = call.dest
       /\ (/\ call.file.kind = "parquet"
           /\ (call.offset <= call.file.num_rows \/ ~call.checked))
          => out.result = "unsupported_format"
       /\ call.file.kind = "missing" => out.result = "io_err"
       /\ call.file.kind = "corrupt" => out.result = "format_err"

C15_Witness ==
    /\ call.fn = "export_data" /\ out # NoOut
    /\ call.format = "xml"
    /\ call.file.kind = "parquet"
    /\ call.dest = OldFile
    /\ out.result = "unsupported_format"
    /\ out.dest = OldFile

\* the cell the claim describes for column c of a row: field_to_string of
\* the row's value for c, the empty string when the row has no such column
ClaimedCell(row, c) ==
    LET named == {n \in 1..Len(row) : row[n][1] = c}
    IN IF named = {} THEN ""
       ELSE field_to_string(row[CHOOSE n \in named : \A m \in named : n <= m][2])

\* C16: a successful CSV export leaves at the export path, in this order,
\* the bytes EF BB BF, one header record with the schema's column names in
\* schema order, and one record per exported row in window order whose cell
\* for column c is field_to_string of the row's value for c
C16_CsvLayout ==
    (/\ call.fn = "export_data" /\ out # NoOut /\ out.result = "ok"
     /\ to_lowercase(call.format) = "csv")
    => LET items == out.dest.items
           rows == ExportWindow(call)
           columns == call.file.schema
       IN /\ out.dest.state = "file"
          /\ Len(items) = 2 + Len(rows)
          /\ items[1] = Item("bytes", <<239, 187, 191>>, <<>>, <<>>)
          /\ items[2] = Item("record", <<>>, columns, <<>>)
          /\ \A n \in 1..Len(rows) :
                /\ items[2 + n].kind = "record"
                /\ Len(items[2 + n].fields) = Len(columns)
                /\ \A k \in 1..Len(columns) :
                      items[2 + n].fields[k] = ClaimedCell(rows[n], columns[k])

C16_Witness ==
    /\ call.fn = "export_data" /\ out # NoOut /\ out.result = "ok"
    /\ call.format = "CSV"
    /\ call.file = FileNested
    /\ call.dest = OldFile
    /\ out.count = 2
    /\ out.dest.items[4].fields = <<"1", "[LIST]", "[MAP]", "[GROUP]">>

\* the number of row records or row objects at the export path
RowsWrittenAt(dest, format) ==
    IF format = "csv" THEN Len(dest.items) - 2
    ELSE Len(from_str(dest.items[1].toks).c)

\* C17, as stated: the row count of the confirmation is the number of rows
\* written, and it is less than the requested limit whenever totalRows <
\* offset + limit
C17_CountBelowLimit ==
    (call.fn = "export_data" /\ out # NoOut /\ out.result = "ok")
    => LET offset == IF call.offset = Absent THEN 0 ELSE call.offset
       IN /\ out.count = RowsWrittenAt(out.dest, to_lowercase(call.format))
          /\ (call.limit # Absent /\ call.file.num_rows < offset + call.limit)
             => out.count < call.limit

\* C17: the row count of the confirmation is the number of rows written to
\* the export path; it never exceeds a requested limit and is less than a
\* requested limit greater than 0 whenever totalRows < offset + limit
C17_CountIsRowsWritten ==
    (call.fn = "export_data" /\ out # NoOut /\ out.result = "ok")
    => LET offset == IF call.offset = Absent THEN 0 ELSE call.offset
       IN /\ out.count = RowsWrittenAt(out.dest, to_lowercase(call.format))
          /\ call.limit # Absent => out.count <= call.limit
          /\ (/\ call.limit # Absent /\ call.limit > 0
              /\ call.file.num_rows < offset + call.limit)
             => out.count < call.limit

C17_Witness ==
    /\ call.fn = "export_data" /\ out # NoOut /\ out.result = "ok"
    /\ call.file.num_rows = 3 /\ call.offset = 2 /\ call.limit = 3
    /\ to_lowercase(call.format) = "json"
    /\ out.count = 1
    /\ RowsWrittenAt(out.dest, "json") = 1

\* the value an object holds under a key
ValueOf(obj, key) ==
    obj.c[CHOOSE n \in 1..Len(obj.c) : obj.c[n][1] = key][2]

\* the JSON kind a nested value must keep
NestedKind(fld) ==
    CASE fld.k = "ListInternal" -> "Array"
      [] fld.k \in {"Group", "MapInternal"} -> "Object"
      [] OTHER -> ""

\* C18: a successful JSON export leaves one JSON array at the export path
\* whose i-th element, parsed back, equals row_to_json of the i-th row of the
\* window, in window order; record, list and map values are arrays and
\* objects, not placeholder texts
C18_JsonRoundTrip ==
    (/\ call.fn = "export_data" /\ out # NoOut /\ out.result = "ok"
     /\ to_lowercase(call.format) = "json")
    => LET rows == ExportWindow(call)
           parsed == from_str(out.dest.items[1].toks)
       IN /\ out.dest.state = "file"
          /\ Len(out.dest.items) = 1
          /\ parsed.j = "Array"
          /\ Len(parsed.c) = Len(rows)
          /\ \A i \in 1..Len(rows) :
                /\ parsed.c[i] = row_to_json(rows[i])
                /\ \A k \in 1..Len(rows[i]) :
                      NestedKind(rows[i][k][2]) # ""
                      => ValueOf(parsed.c[i], rows[i][k][1]).j = NestedKind(rows[i][k][2])

C18_Witness ==
    /\ call.fn = "export_data" /\ out # NoOut /\ out.result = "ok"
    /\ call.format = "JSON"
    /\ call.file = FileNested
    /\ call.offset = 1
    /\ out.count = 1
    /\ LET parsed == from_str(out.dest.items[1].toks)
       IN /\ ValueOf(parsed.c[1], "tags") = JArr(<<JNum(7), JNull>>)
          /\ ValueOf(parsed.c[1], "rec").j = "Object"
          /\ ValueOf(ValueOf(parsed.c[1], "attrs"), "\"b\"") = JNum(2)

\* ------------------------------------------------------------------
\* the type resolver: the closure compute_metadata maps over the schema fields

\* a logical type tag with its parameters: a and b are precision and scale
\* or the bit width, flag is is_adjusted_to_u_t_c or is_signed
LT(tag, a, b, flag, unit) == [tag |-> tag, a |-> a, b |-> b, flag |-> flag, unit |-> unit]
NoLogical == LT("none", 0, 0, FALSE, "")
PlainTags == {"String", "Map", "List", "Enum", "Date", "Unknown", "Json", "Bson",
              "Uuid", "Float16"}
TimeUnits == {"MILLIS", "MICROS", "NANOS"}
\* the tags parquet::basic::LogicalType of this build has
ResolverTypes ==
    {LT(t, 0, 0, FALSE, "") : t \in PlainTags}
    \cup {LT("Decimal", p, s, FALSE, "") : p \in {9, 38}, s \in {0, 2}}
    \cup {LT(t, 0, 0, utc, u) : t \in {"Time", "Timestamp"}, utc \in BOOLEAN, u \in TimeUnits}
    \cup {LT("Integer", w, 0, sg, "") : w \in {8, 16, 32, 64}, sg \in BOOLEAN}
\* tags a file can carry that this build's LogicalType does not have
ForeignTypes == {LT(t, 0, 0, FALSE, "") : t \in {"Variant", "Geometry", "Geography", "Future"}}

ConvertedTypes ==
    {"NONE", "UTF8", "MAP", "LIST", "ENUM", "DECIMAL", "DATE", "TIME_MILLIS",
     "TIME_MICROS", "TIMESTAMP_MILLIS", "TIMESTAMP_MICROS", "UINT_8", "UINT_16",
     "UINT_32", "UINT_64", "INT_8", "INT_16", "INT_32", "INT_64", "JSON", "BSON",
     "INTERVAL", "MAP_KEY_VALUE"}
PhysicalTypes ==
    {"BOOLEAN", "INT32", "INT64", "INT96", "FLOAT", "DOUBLE", "BYTE_ARRAY",
     "FIXED_LEN_BYTE_ARRAY"}

\* format!("{}", b) for a bool
BoolText(b) == IF b THEN "true" ELSE "false"

\* the match over LogicalType
logical_label(lt) ==
    CASE lt.tag = "String" -> "STRING"
      [] lt.tag = "Map" -> "MAP"
      [] lt.tag = "List" -> "LIST"
      [] lt.tag = "Enum" -> "ENUM"
      [] lt.tag = "Decimal" -> "DECIMAL(" \o ToString(lt.a) \o "," \o ToString(lt.b) \o ")"
      [] lt.tag = "Date" -> "DATE"
      [] lt.tag = "Time" -> "TIME(" \o lt.unit \o ", UTC:" \o BoolText(lt.flag) \o ")"
      [] lt.tag = "Timestamp" ->
            "TIMESTAMP(" \o lt.unit \o ", UTC:" \o BoolText(lt.flag) \o ")"
      [] lt.tag = "Integer" ->
            "INT" \o ToString(lt.a) \o (IF lt.flag THEN "" ELSE "_UNSIGNED")
      [] lt.tag = "Unknown" -> "UNKNOWN"
      [] lt.tag = "Json" -> "JSON"
      [] lt.tag = "Bson" -> "BSON"
      [] lt.tag = "Uuid" -> "UUID"
      [] lt.tag = "Float16" -> "FLOAT16"

\* the match over ConvertedType, NONE apart
converted_label(ct) ==
    CASE ct = "UTF8" -> "STRING"
      [] ct = "UINT_8" -> "UINT8"
      [] ct = "UINT_16" -> "UINT16"
      [] ct = "UINT_32" -> "UINT32"
      [] ct = "UINT_64" -> "UINT64"
      [] ct = "INT_8" -> "INT8"
      [] ct = "INT_16" -> "INT16"
      [] ct = "INT_32" -> "INT32"
      [] ct = "INT_64" -> "INT64"
      [] ct \in {"MAP", "LIST", "ENUM", "DECIMAL", "DATE", "TIME_MILLIS", "TIME_MICROS",
                 "TIMESTAMP_MILLIS", "TIMESTAMP_MICROS", "JSON", "BSON", "INTERVAL",
                 "MAP_KEY_VALUE"} -> ct

\* Option<String>
NoLabel == [some |-> FALSE, text |-> ""]
SomeLabel(s) == [some |-> TRUE, text |-> s]

\* models::ColumnInfo
ColumnInfo(name, column_type, logical_type, physical_type) ==
    [name |-> name, column_type |-> column_type, logical_type |-> logical_type,
     physical_type |-> physical_type]
NoColumn == ColumnInfo("", "", NoLabel, "")

\* a resolver that asks the converted type before the logical type
column_info_converted_first(field) ==
    LET physical_type == field.physical
        logical_type ==
           IF field.converted # "NONE" THEN SomeLabel(converted_label(field.converted))
           ELSE IF field.logical # NoLogical THEN SomeLabel(logical_label(field.logical))
           ELSE NoLabel
    IN ColumnInfo(field.name,
                  IF logical_type.some THEN logical_type.text ELSE physical_type,
                  logical_type, physical_type)

\* the ColumnInfo the closure builds for one schema field
column_info(field) ==
    LET physical_type == field.physical
        logical_type ==
           IF field.logical # NoLogical THEN SomeLabel(logical_label(field.logical))
           ELSE IF field.converted # "NONE" THEN SomeLabel(converted_label(field.converted))
           ELSE NoLabel
    IN ColumnInfo(field.name,
                  IF logical_type.some THEN logical_type.text ELSE physical_type,
                  logical_type, physical_type)

\* what reading the schema makes of a logical type tag the build's
\* LogicalType has no variant for: the footer fails to decode, the decoder
\* panics, or the tag is dropped; which one depends on the parquet crate
ForeignTagOutcomes == {"format_err", "panic", "dropped"}

TypeOut(r, col) == [result |-> r, column |-> col]

\* compute_metadata on a file whose schema has the one field of the call
ComputeColumn ==
    /\ call.fn = "compute_metadata"
    /\ out = NoOut
    /\ IF call.field.logical \in ForeignTypes
       THEN \E o \in ForeignTagOutcomes :
               out' = IF o = "dropped"
                      THEN TypeOut("ok", column_info([call.field EXCEPT !.logical = NoLogical]))
                      ELSE TypeOut(o, NoColumn)
       ELSE out' = TypeOut("ok", column_info(call.field))
    /\ UNCHANGED <<cacheVars, call>>

SchemaFields ==
    [name : {"c"}, logical : {NoLogical} \cup ResolverTypes \cup ForeignTypes,
     converted : ConvertedTypes, physical : PhysicalTypes]
TypeCalls == [fn : {"compute_metadata"}, path : Contended, field : SchemaFields]

InitType ==
    /\ InitCache(FALSE, EmptyMap)
    /\ call \in TypeCalls
    /\ out = NoOut

NextType == ComputeColumn
SpecType == InitType /\ [][NextType]_vars

C20_TotalOverTags ==
    (/\ call.fn = "compute_metadata" /\ out # NoOut
     /\ call.field.logical # NoLogical)
    => /\ out.result = "ok"
       /\ out.column.logical_type.some
       /\ call.field.logical \in ForeignTypes
          => /\ out.column.column_type # call.field.physical
             /\ (call.field.converted # "NONE"
                 => out.column.column_type # converted_label(call.field.converted))

\* ------------------------------------------------------------------
\* the value codec on every variant

FBool(b) == Field("Bool", b, "", <<>>)
FFloat(kind, i, class) == Field(kind, i, class, <<>>)
FDecimal(debug) == Field("Decimal", 0, debug, <<>>)
FBytes(bytes) == Field("Bytes", 0, "", bytes)
FDate(d) == Field("Date", d, "", <<>>)
FTime(kind, v) == Field(kind, v, "", <<>>)

\* i32::MIN and i32::MAX
I32Min == -2147483647 - 1
I32Max == 2147483647

FloatKinds == {"Float", "Double", "Float16"}
FloatClasses == {"finite", "NaN", "inf", "-inf"}
Floats ==
    {FFloat(k, i, "finite") : k \in FloatKinds, i \in {-1500, 0, 250, 1000}}
    \cup {FFloat(k, 0, c) : k \in FloatKinds, c \in FloatClasses \ {"finite"}}
Dates ==
    {FDate(d) : d \in {I32Min, MinDateDays - 1, MinDateDays, -719529, -719528, -1, 0, 1,
                       59, 11016, 2932896, 2932897, MaxDateDays, MaxDateDays + 1, I32Max}}
\* timestamps and times of day; the i64 payloads are taken from the 32-bit range
Timestamps ==
    {FTime("TimestampMillis", v) :
        v \in {-86400001, -86400000, -1500, -1000, -1, 0, 1, 999, 1000, 86399999,
               951782400, I32Max}}
    \cup {FTime("TimestampMicros", v) :
        v \in {-1000001, -1000000, -1, 0, 1, 1500000, I32Max}}
Times ==
    {FTime("TimeMillis", v) : v \in {I32Min + 1, -1, 0, 1, 3661001, 86399999, 86400000}}
    \cup {FTime("TimeMicros", v) : v \in {-1, 0, 1, 61000001, I32Max}}
Scalars ==
    {FBool(0), FBool(1), FInt(-1), FInt(0), FInt(7), FDecimal("Decimal(1.50)"),
     FStr(""), FStr("x"), FNull,
     FBytes(<<>>), FBytes(<<77>>), FBytes(<<77, 97>>), FBytes(<<77, 97, 110>>),
     FBytes(<<255, 254, 253, 252>>)}
    \cup Floats \cup Dates \cup Timestamps \cup Times

\* nested values, up to three levels deep, maps with repeated keys included
Nested1 ==
    {FList(<<>>), FList(<<FInt(7), FNull>>), FList(<<FDate(0), FDate(I32Max)>>),
     FMap(<<>>), FMap(<<<<FStr("k"), FInt(1)>>>>),
     FMap(<<<<FInt(1), FStr("x")>>, <<FInt(2), FStr("y")>>, <<FInt(1), FStr("z")>>>>),
     FMap(<<<<FStr("k"), FInt(1)>>, <<FStr("k"), FNull>>>>),
     FGroup(<<>>), FGroup(<<<<"n", FNull>>, <<"d", FDate(-1)>>>>)}
Nested2 ==
    {FList(<<v>>) : v \in Nested1}
    \cup {FGroup(<<<<"in", v>>, <<"id", FInt(1)>>>>) : v \in Nested1}
    \cup {FMap(<<<<FStr("a"), v>>, <<FStr("a"), FList(<<v>>)>>>>) : v \in Nested1}
Nested3 == {FList(<<FGroup(<<<<"deep", v>>>>)>>) : v \in Nested2}
CodecValues == Scalars \cup Nested1 \cup Nested2 \cup Nested3

\* whether the conversion of a value aborts: the date addition panics
RECURSIVE field_panics(_)
field_panics(fld) ==
    CASE fld.k = "Date" -> DatePanics(fld.i)
      [] fld.k = "ListInternal" -> \E n \in 1..Len(fld.c) : field_panics(fld.c[n])
      [] fld.k = "Group" -> \E n \in 1..Len(fld.c) : field_panics(fld.c[n][2])
      [] fld.k = "MapInternal" ->
            \E n \in 1..Len(fld.c) : field_panics(fld.c[n][1]) \/ field_panics(fld.c[n][2])
      [] OTHER -> FALSE

\* what a codec call returned: the result ("ok" or "panic"), the JSON value
\* or the text
CodecOut(r, json, text) == [result |-> r, json |-> json, text |-> text]

\* utils::field_to_json applied to the value of the call
FieldToJson ==
    /\ call.fn = "field_to_json"
    /\ out = NoOut
    /\ out' = IF field_panics(call.value) THEN CodecOut("panic", JNull, "")
              ELSE CodecOut("ok", field_to_json(call.value), "")
    /\ UNCHANGED <<cacheVars, call>>

\* utils::field_to_string applied to the value of the call: only a date at
\* the top is converted
FieldToString ==
    /\ call.fn = "field_to_string"
    /\ out = NoOut
    /\ out' = IF call.value.k = "Date" /\ DatePanics(call.value.i)
              THEN CodecOut("panic", JNull, "")
              ELSE CodecOut("ok", JNull, field_to_string(call.value))
    /\ UNCHANGED <<cacheVars, call>>

\* utils::row_to_json applied to the row of the call
RowToJson ==
    /\ call.fn = "row_to_json"
    /\ out = NoOut
    /\ out' = IF \E n \in 1..Len(call.row) : field_panics(call.row[n][2])
              THEN CodecOut("panic", JNull, "")
              ELSE CodecOut("ok", row_to_json(call.row), "")
    /\ UNCHANGED <<cacheVars, call>>

\* compute_metadata on the file of the call, no other task running
ComputeMetadataAlone ==
    /\ call.fn = "compute_metadata"
    /\ out = NoOut
    /\ out' = LET r == compute_metadata(call.file)
              IN [result |-> IF r.err = "" THEN "ok" ELSE r.err, meta |-> r.meta]
    /\ UNCHANGED <<cacheVars, call>>

\* files whose schema names its columns out of byte order or twice
FileReversed == [kind |-> "parquet", num_rows |-> 2, schema |-> <<"name", "id">>]
FileRepeated == [kind |-> "parquet", num_rows |-> 2, schema |-> <<"id", "name", "id">>]
SchemaFiles == DataFiles \cup {FileReversed, FileRepeated}

CodecCalls ==
    [fn : {"field_to_json", "field_to_string"}, path : Contended,
     value : CodecValues, preserve_order : BOOLEAN]
    \cup [fn : {"row_to_json"}, path : Contended,
          row : {RowAt(f, i) : f \in {g \in SchemaFiles : g.kind = "parquet"}, i \in 0..1},
          preserve_order : BOOLEAN]
    \cup [fn : {"compute_metadata"}, path : Contended, file : SchemaFiles,
          preserve_order : BOOLEAN]

InitCodec ==
    /\ InitCache(FALSE, EmptyMap)
    /\ call \in CodecCalls
    /\ out = NoOut

NextCodec == FieldToJson \/ FieldToString \/ RowToJson \/ ComputeMetadataAlone
SpecCodec == InitCodec /\ [][NextCodec]_vars

\* ------------------------------------------------ properties of the codec
\* C21: field_to_json is total: for every variant and payload, Date(d) for
\* every 32-bit d included, it returns a JSON value and never aborts; a date
\* is rendered as the calendar date 1970-01-01 plus d days
C21_FieldToJsonTotal ==
    (call.fn = "field_to_json" /\ out # NoOut)
    => /\ out.result = "ok"
       /\ call.value.k = "Date"
          => out.json = JStr(DateText(CivilFromDays(call.value.i)))

\* the instant t thousandths (perSec = 1000) or millionths (perSec = 1000000)
\* of a second after the epoch, as "YYYY-MM-DD HH:MM:SS" with the fraction
InstantText(t, perSec, digits) ==
    LET secs == t \div perSec
        frac == t % perSec
    IN DateText(CivilFromDays(secs \div 86400)) \o " " \o ClockText(secs % 86400, FALSE)
       \o "." \o Pad(frac, digits)

IsTimestamp(fld) == fld.k \in {"TimestampMillis", "TimestampMicros"}

\* C22: for every timestamp t in the representable range, negative t that is
\* no whole number of seconds included, field_to_json returns the UTC text
\* of the instant t with 3 (millis) or 6 (micros) fractional digits
C22_TimestampText ==
    (call.fn = "field_to_json" /\ out # NoOut /\ IsTimestamp(call.value))
    => /\ out.result = "ok"
       /\ out.json = JStr(IF call.value.k = "TimestampMillis"
                          THEN InstantText(call.value.i, 1000, 3)
                          ELSE InstantText(call.value.i, 1000000, 6))

\* C22: the part that holds: the text of the instant for every t >= 0 and
\* every negative t that is a whole number of seconds
C22_TimestampTextWholeOrPositive ==
    (/\ call.fn = "field_to_json" /\ out # NoOut /\ IsTimestamp(call.value)
     /\ (call.value.i >= 0
         \/ call.value.i % (IF call.value.k = "TimestampMillis" THEN 1000 ELSE 1000000) = 0))
    => /\ out.result = "ok"
       /\ out.json = JStr(IF call.value.k = "TimestampMillis"
                          THEN InstantText(call.value.i, 1000, 3)
                          ELSE InstantText(call.value.i, 1000000, 6))

IsFloat(fld) == fld.k \in FloatKinds

\* C23: field_to_json of a Float, Double or Float16 that is NaN, +Infinity
\* or -Infinity returns the JSON number 0 and does not fail; for a finite
\* value it returns that value as a JSON number
C23_NonFiniteIsZero ==
    (call.fn = "field_to_json" /\ out # NoOut /\ IsFloat(call.value))
    => /\ out.result = "ok"
       /\ call.value.s # "finite" => out.json = JNum(0)
       /\ call.value.s = "finite" => out.json = JFloat(call.value.i)

C23_Witness ==
    /\ call.fn = "field_to_json" /\ out # NoOut /\ out.result = "ok"
    /\ call.value = FFloat("Float16", 0, "-inf")
    /\ out.json = JNum(0)

\* the filter texts that are empty or white space only
BlankTexts == {"", "  "}
\* the query the claim describes, in the pieces of the format! call
ClaimedQuery(c) ==
    <<"SELECT", IF c.fn = "read_data" THEN "*" ELSE "COUNT(*)", "FROM", "t">>
    \o (IF c.filter.some /\ c.filter.text \notin BlankTexts
        THEN <<"WHERE", c.filter.text>> ELSE <<>>)
    \o (IF c.fn = "read_data"
        THEN <<"LIMIT", ToString(c.limit), "OFFSET", ToString(c.offset)>> ELSE <<>>)

\* the query a call sends to ctx.sql
QueryOf(c) ==
    IF c.fn = "read_data" THEN read_query(c.filter, c.limit, c.offset)
    ELSE count_query(c.filter)

\* C24: read_data and count_data build a query on table "t" with no WHERE
\* clause when the filter is absent, empty or white space only, otherwise
\* with "WHERE " and the filter text unchanged; read_data appends LIMIT limit
\* OFFSET offset; the outcome of the call is that of this query
C24_QueryText ==
    (call.fn \in {"read_data", "count_data"} /\ out # NoOut)
    => /\ QueryOf(call) = ClaimedQuery(call)
       /\ out.result = "plan_err" => ~Plan(ClaimedQuery(call)).ok
       /\ out.result = "ok" => Plan(ClaimedQuery(call)).ok
       /\ (out.result = "ok" /\ call.fn = "read_data")
          => out.count <= call.limit

C24_Witness ==
    /\ call.fn = "read_data" /\ out # NoOut /\ out.result = "ok"
    /\ call.filter = SomeFilter(" id > 0 ")
    /\ call.limit = 2 /\ call.offset = 1
    /\ QueryOf(call) = <<"SELECT", "*", "FROM", "t", "WHERE", " id > 0 ",
                         "LIMIT", "2", "OFFSET", "1">>
    /\ out.count = 1

\* C25: count_data returns 0 when the query yields no batch or a first batch
\* with zero rows; otherwise the first value of the first column of the first
\* batch when that is a 64-bit integer column, and a conversion error, without
\* a number, when the column has another type
C25_CountFromBatches ==
    (call.fn = "count_collected" /\ out # NoOut)
    => LET batches == call.batches
       IN /\ batches = <<>> => (out.result = "ok" /\ out.count = 0)
          /\ (batches # <<>> /\ batches[1].values = <<>>)
             => (out.result = "ok" /\ out.count = 0)
          /\ (batches # <<>> /\ batches[1].values # <<>> /\ batches[1].type = "Int64")
             => (out.result = "ok" /\ out.count = batches[1].values[1])
          /\ (batches # <<>> /\ batches[1].values # <<>> /\ batches[1].type # "Int64")
             => out.result = "downcast_err"

C25_Witness ==
    /\ call.fn = "count_collected" /\ out # NoOut
    /\ call.batches = <<[type |-> "Utf8", values |-> <<5>>],
                        [type |-> "Int64", values |-> <<2, 3>>]>>
    /\ out.result = "downcast_err"

\* the distinct stringified keys of map entries, in the order they first appear
RECURSIVE DistinctKeys(_, _)
DistinctKeys(es, seen) ==
    IF es = <<>> THEN seen
    ELSE LET key == json_to_string(field_to_json(es[1][1]))
         IN DistinctKeys(Tail(es),
                         IF \E n \in 1..Len(seen) : seen[n] = key THEN seen
                         ELSE Append(seen, key))

\* the last entry of a map with this stringified key
LastWithKey(es, key) ==
    es[CHOOSE n \in 1..Len(es) :
          /\ json_to_string(field_to_json(es[n][1])) = key
          /\ \A m \in (n + 1)..Len(es) : json_to_string(field_to_json(es[m][1])) # key]

\* C26: field_to_json of a map is an object with one entry per distinct
\* stringified key, the key being the JSON text of the converted map key and
\* the value the conversion of the map value; of entries whose keys stringify
\* identically the object holds the value of the later one
C26_MapLaterEntryWins ==
    (/\ call.fn = "field_to_json" /\ out # NoOut /\ out.result = "ok"
     /\ call.value.k = "MapInternal")
    => LET es == call.value.c
           keys == DistinctKeys(es, <<>>)
           obj == out.json
       IN /\ obj.j = "Object"
          /\ Len(obj.c) = Len(keys)
          /\ \A n \in 1..Len(keys) :
                \E m \in 1..Len(obj.c) :
                   /\ obj.c[m][1] = keys[n]
                   /\ obj.c[m][2] = field_to_json(LastWithKey(es, keys[n])[2])
          /\ \A m1, m2 \in 1..Len(obj.c) : m1 # m2 => obj.c[m1][1] # obj.c[m2][1]

C26_Witness ==
    /\ call.fn = "field_to_json" /\ out # NoOut /\ out.result = "ok"
    /\ call.value = FMap(<<<<FInt(1), FStr("x")>>, <<FInt(2), FStr("y")>>,
                           <<FInt(1), FStr("z")>>>>)
    /\ Len(out.json.c) = 2
    /\ ValueOf(out.json, "1") = JStr("z")
    /\ ValueOf(out.json, "2") = JStr("y")

IsNested(fld) == fld.k \in {"Group", "ListInternal", "MapInternal"}
\* the number of elements, columns or entries directly inside a nested value
Children(fld) == Len(fld.c)

\* C27: field_to_string never recurses: for every nested record, list or
\* map, whatever its contents and depth, it returns exactly "[GROUP]",
\* "[LIST]" or "[MAP]", and "" for Null; field_to_json of the same nested
\* value converts every element
C27_PlaceholdersForNested ==
    /\ (call.fn = "field_to_string" /\ out # NoOut /\ IsNested(call.value))
       => /\ out.result = "ok"
          /\ out.text = (CASE call.value.k = "Group" -> "[GROUP]"
                           [] call.value.k = "ListInternal" -> "[LIST]"
                           [] call.value.k = "MapInternal" -> "[MAP]")
    /\ (call.fn = "field_to_string" /\ out # NoOut /\ call.value = FNull)
       => (out.result = "ok" /\ out.text = "")
    /\ (/\ call.fn = "field_to_json" /\ out # NoOut /\ out.result = "ok"
        /\ IsNested(call.value))
       => LET v == call.value
          IN /\ v.k = "ListInternal"
                => /\ out.json.j = "Array"
                   /\ Len(out.json.c) = Children(v)
                   /\ \A n \in 1..Children(v) : out.json.c[n] = field_to_json(v.c[n])
             /\ v.k = "Group"
                => /\ out.json.j = "Object"
                   /\ \A n \in 1..Children(v) :
                         \E m \in 1..Len(out.json.c) : out.json.c[m][1] = v.c[n][1]
             /\ v.k = "MapInternal" => out.json.j = "Object"

C27_Witness ==
    /\ call.fn = "field_to_string" /\ out # NoOut /\ out.result = "ok"
    /\ call.value \in Nested3
    /\ field_panics(call.value)
    /\ out.text = "[LIST]"

\* the keys of an object, in the order the object holds them
KeysOf(obj) == [n \in 1..Len(obj.c) |-> obj.c[n][1]]
\* the column names of a row, in schema order
NamesOf(row) == [n \in 1..Len(row) |-> row[n][1]]

\* C28: the columns list of every metadata record lists the schema fields in
\* schema order with num_columns equal to its length, and the object
\* row_to_json produces has exactly one entry per column of the row, in the
\* row's schema order
C28_SchemaOrder ==
    /\ (call.fn = "compute_metadata" /\ out # NoOut /\ out.result = "ok")
       => /\ out.meta.columns = call.file.schema
          /\ out.meta.num_columns = Len(out.meta.columns)
    /\ (call.fn = "row_to_json" /\ out # NoOut /\ out.result = "ok")
       => /\ out.json.j = "Object"
          /\ KeysOf(out.json) = NamesOf(call.row)

\* C28: the part that holds: the metadata columns, and the object of a row
\* whose column names are distinct in a build that keeps insertion order
C28_SchemaOrderOfMetadata ==
    /\ (call.fn = "compute_metadata" /\ out # NoOut /\ out.result = "ok")
       => /\ out.meta.columns = call.file.schema
          /\ out.meta.num_columns = Len(out.meta.columns)
    /\ (/\ call.fn = "row_to_json" /\ out # NoOut /\ out.result = "ok"
        /\ call.preserve_order
        /\ \A n, m \in 1..Len(call.row) : n # m => call.row[n][1] # call.row[m][1])
       => KeysOf(out.json) = NamesOf(call.row)

\* ------------------------------------------------- termination of the calls
\* the steps a call of task t takes after it has started, its return included
CallStep(t) ==
    \/ SessLockLookup(t)
    \/ SessLookup(t)
    \/ \E f \in FileStates : RegisterParquet(t, f)
    \/ SessLockInsert(t)
    \/ SessInsert(t)
    \/ MetaLockLookup(t)
    \/ MetaLookup(t)
    \/ \E f \in FileStates : ComputeMetadata(t, f)
    \/ MetaLockInsert(t)
    \/ MetaInsert(t)
    \/ EvictLockSessions(t)
    \/ EvictRemoveSession(t)
    \/ EvictLockMetadata(t)
    \/ EvictRemoveMetadata(t)
    \/ Return(t)

\* every task that can take a step is eventually scheduled: a std::sync::Mutex
\* is handed to some waiter once it is free, and the file work of a call
\* (register_parquet, compute_metadata) terminates
SpecCacheFair == SpecCache /\ \A t \in Tasks : WF_vars(CallStep(t))

InCall(t) == pc[t] \notin {"idle", "done"}
HoldsBoth(t) == sessLock = t /\ metaLock = t

\* C29: no task ever holds the session mutex and the metadata mutex at the
\* same time, and under fair scheduling every call of get_or_create_session,
\* get_or_create_metadata and evict that has started eventually returns: no
\* task stays inside a call for ever (a call leaves only through its return)
C29_NeverBothAndReturns ==
    /\ [](\A t \in Tasks : ~HoldsBoth(t))
    /\ \A t \in Tasks : []<>(~InCall(t))

\* both mutexes are held at once, by two different tasks: an evict inside its
\* metadata removal and a get_or_create_session inside its session map
C29_Witness ==
    \E t, u \in Tasks :
        /\ t # u
        /\ metaLock = t
        /\ sessLock = u
        /\ op[t] = "evict"
        /\ op[u] = "get_or_create_session"

\* ------------------------------------------------------ calls on two paths
\* the tasks are interchangeable, and so are the paths: the first call of a
\* behaviour is taken to be made by the first task, on the first path
Callers == {t \in Tasks : calls = 0 => t = 1}
CalledPaths == {p \in Paths : calls = 0 => p \in Contended}

\* concurrent callers of the cache methods, each call after the first on a
\* path of its own choice
NextFrame ==
    \/ \E t \in Callers, o \in CacheOps, p \in CalledPaths : Start(t, o, p)
    \/ CacheStep
    \/ MetaStep

SpecFrame == Init /\ [][NextFrame]_vars

\* the entry of path q is the same in map m and in map n
SameEntry(m, n, q) ==
    /\ q \in DOMAIN m <=> q \in DOMAIN n
    /\ q \in DOMAIN m => m[q] = n[q]

\* task t has taken the step
Stepped(t) == pc'[t] # pc[t]

\* C30: a step of a cache operation on path p leaves the entries of every
\* other path q unchanged in both maps (and the registered tables of q's
\* session); a step of get_or_create_session leaves the metadata map
\* unchanged and a step of get_or_create_metadata the session map
C30_OtherPathsUntouched ==
    [][\A t \in Tasks :
         Stepped(t) /\ pc[t] # "idle" =>
           /\ \A q \in Paths \ {path[t]} :
                /\ SameEntry(sessions, sessions', q)
                /\ SameEntry(metadata, metadata', q)
                /\ q \in DOMAIN sessions => heap'[sessions[q]] = heap[sessions[q]]
           /\ op[t] = "get_or_create_session" => metadata' = metadata
           /\ op[t] = "get_or_create_metadata" => sessions' = sessions]_vars

\* an evict of one path has removed that path's session while the session of
\* the other path is cached
C30_Witness ==
    \E t \in Tasks, q \in Paths :
        /\ op[t] = "evict"
        /\ pc[t] \in {"e_lock2", "e_remove_m", "done"}
        /\ tg[t].remS
        /\ q # path[t]
        /\ q \in DOMAIN sessions
        /\ path[t] \notin DOMAIN sessions

====
